---- MODULE Spec2Model ----
(***************************************************************************)
(* Schedule backend: the day full-replace transaction                      *)
(* (updateScheduleByDay, PUT /api/schedule/day), the audit sink            *)
(* (logChange) and the connection pool they share.                         *)
(*                                                                         *)
(* One action is one run of handler code between two awaits: JavaScript    *)
(* runs everything between two awaits without interleaving, so the         *)
(* synchronous checks of lines 10-35 are one step, and every               *)
(* `await client.query(...)` is a step that either resolves or rejects.    *)
(*                                                                         *)
(* The store is PostgreSQL behind pg.Pool: a statement runs atomically     *)
(* against the committed rows plus the writes of its own transaction, a    *)
(* transaction's writes are published at COMMIT, a COMMIT that returns an  *)
(* error has aborted the transaction, and a connection that is lost has    *)
(* its open transaction aborted by the server.                             *)
(*                                                                         *)
(* Further parts, each with a specification of its own:                    *)
(*   SpecWeek    getWeekInfo (services/week.service.js)                    *)
(*   SpecGen     generateDates (services/generator.service.js)             *)
(*   SpecCreate  createLesson (controllers/admin.controller.js)            *)
(*   SpecCopy    copyWeek (controllers/admin.controller.js)                *)
(* Dates are day numbers since 1970-01-01 in a zone with a fixed offset    *)
(* from UTC (no daylight-saving shifts).                                   *)
(***************************************************************************)
EXTENDS Integers, Sequences, FiniteSets, TLC

\* ------------------------------------------------------------------ bounds
MaxCalls == 2
MaxConns == 3

\* ------------------------------------------------------- program constants
HttpOk == 200
HttpBadRequest == 400
HttpUnauthorized == 401
HttpForbidden == 403
HttpNotFound == 404
HttpServerError == 500
NoResponse == 0
Null == 0 - 1

\* --------------------------------------------------------------- universe
Slots == {"r1", "r2"}
Conns == 1..MaxConns
NoClient == 0

Users ==
  { [id |-> 1, role |-> "admin"],
    [id |-> 2, role |-> "teacher"],
    [id |-> 3, role |-> "student"],
    [id |-> 4, role |-> "admin"] }

\* A JavaScript value is modelled by its truthiness class: 0 is any falsy
\* value (undefined, null, "", 0), a positive number is a concrete value.
Required == {"start_time", "end_time", "subject", "room", "type"}

LessonA ==
  [start_time |-> 1, end_time |-> 2, subject |-> 1, teacher_id |-> 0,
   room |-> 1, type |-> 1]

LessonB ==
  [start_time |-> 3, end_time |-> 4, subject |-> 2, teacher_id |-> 7,
   room |-> 2, type |-> 2]

Missing(f) == [LessonB EXCEPT ![f] = 0]

NotArray == [isArray |-> FALSE, items |-> << >>]
ArrayOf(s) == [isArray |-> TRUE, items |-> s]

LessonInputs ==
  {NotArray}
    \cup {ArrayOf(s) : s \in {<< >>, <<LessonA>>, <<LessonA, LessonB>>,
                              <<LessonB, LessonB>>}}
    \cup {ArrayOf(<<LessonA, Missing(f)>>) : f \in Required}

\* Calendar dates are day numbers; 0 is a missing date / groupId.
Dates == 1..3
GroupIds == {1}

WellFormed ==
  {b \in [date : Dates, groupId : GroupIds, lessons : LessonInputs] :
     b.lessons.isArray}

Malformed ==
  { [date |-> 0, groupId |-> 1, lessons |-> ArrayOf(<<LessonA>>)],
    [date |-> 3, groupId |-> 0, lessons |-> ArrayOf(<<LessonA>>)],
    [date |-> 3, groupId |-> 1, lessons |-> NotArray],
    [date |-> 0, groupId |-> 0, lessons |-> NotArray] }

Bodies == WellFormed \cup Malformed

\* the requests that arrive: an admin with any body, the other roles with
\* one well-formed and one malformed body
Requests ==
  {q \in [user : Users, body : Bodies] :
     \/ q.user.role = "admin"
     \/ q.body \in { [date |-> 3, groupId |-> 1,
                       lessons |-> ArrayOf(<<LessonA>>)],
                      [date |-> 0, groupId |-> 0, lessons |-> NotArray] }}

\* Slot r1 takes any request; the request handled concurrently in slot r2
\* is a well-formed one of the second admin.
Rivals ==
  {q \in Requests :
     /\ q.user.id = 4
     /\ q.body \in WellFormed
     /\ q.body.date # 1
     /\ q.body.lessons.items \in {<<LessonA>>, <<LessonB, LessonB>>}}

RequestsOf(r) == IF r = "r1" THEN Requests ELSE Rivals

NoReq == [user |-> [id |-> 0, role |-> "none"],
          body |-> [date |-> 0, groupId |-> 0, lessons |-> NotArray]]

NoTx == [active |-> FALSE, deleted |-> {}, inserted |-> {}]

SeedRows ==
  { [id |-> 1, group_id |-> 1, lesson_date |-> 1, start_time |-> 1,
     end_time |-> 2, subject |-> 1, teacher_id |-> Null, room |-> 1,
     type |-> 1],
    [id |-> 2, group_id |-> 1, lesson_date |-> 3, start_time |-> 3,
     end_time |-> 4, subject |-> 2, teacher_id |-> 7, room |-> 2,
     type |-> 2],
    [id |-> 3, group_id |-> 2, lesson_date |-> 3, start_time |-> 1,
     end_time |-> 2, subject |-> 1, teacher_id |-> Null, room |-> 1,
     type |-> 1] }

VARIABLES
  today,      \* the server-local calendar day (new Date()), fixed per run
  tzWest,     \* TRUE when the server's zone is behind UTC
  lessons,    \* committed rows of table lessons
  nextId,     \* the SERIAL sequence of lessons.id
  audit,      \* rows of table schedule_changes, in insertion order
  free,       \* idle connections of the pool
  tx,         \* per connection: the open transaction and its writes
  pc,         \* per handler slot: the await the handler is suspended at
  req,        \* per slot: req.user and req.body
  client,     \* per slot: the connection pool.connect() gave
  oldRes,     \* per slot: oldLessonsRes.rows
  idx,        \* per slot: position of the for-of loop over lessons
  resp,       \* per slot: the HTTP status sent (NoResponse: none yet)
  calls,      \* number of requests received so far
  \* history of the current call of a slot
  ins,        \* ids of the rows its INSERT statements created
  stmts,      \* connections its statements ran on
  released,   \* number of client.release() calls
  logged,     \* number of audit rows it appended
  auditRes,   \* "none", "ok" (audit row written) or "failed" (swallowed)
  failedAt,   \* the await that rejected ("none", or "validate")
  before,     \* tables lessons and schedule_changes when it arrived
  prev        \* summary of the call that completed last

\* getWeekInfo (services/week.service.js)
VARIABLES
  wkNow,      \* new Date() of the server, fixed per run
  wkOut       \* per weekOffset: what getWeekInfo returned (NoInfo: not called)

\* generateDates (services/generator.service.js)
VARIABLES
  gnTz,       \* offset of the server's zone from UTC, in minutes
  gnDay,      \* the dayOfWeek argument
  gnOut,      \* per weekType: the dates returned (NotRun: not called)
  gnRun       \* the running call: weekType, currentDate, dates (or NoRun)

\* createLesson (controllers/admin.controller.js)
VARIABLES
  crPc,       \* the await createLesson is suspended at
  crReq,      \* req.user and req.body
  crClient,   \* the connection pool.connect() gave
  crDates,    \* datesToInsert
  crIds,      \* insertedIds
  crResp,     \* the HTTP status sent (NoResponse: none yet)
  crCalls,    \* number of requests received so far
  crThrew,    \* TRUE once line 177 has thrown in the current call
  crBefore    \* table lessons when the current call arrived

\* copyWeek (controllers/admin.controller.js)
VARIABLES
  cwPc,       \* the await copyWeek is suspended at
  cwReq,      \* req.user and req.body
  cwSource,   \* source.rows
  cwResp,     \* the HTTP status sent (NoResponse: none yet)
  cwCalls,    \* number of requests received so far
  cwFailed,   \* the await that rejected in the current call ("none")
  cwBefore    \* tables lessons and schedule_changes when the call arrived

\* clearWeek, replaceTeacher, createGroup, deleteGroup
\* (controllers/admin.controller.js), one request at a time
VARIABLES
  groups,     \* table groups
  nextGroupId,\* next value of the sequence behind groups.id
  amPc,       \* the await the handler is suspended at
  amOp,       \* the handler that runs ("none": no request)
  amReq,      \* req.user, req.body and req.params
  amRows,     \* the rows the handler's SELECT returned
  amCount,    \* result.rowCount of the DELETE or UPDATE
  amResp,     \* the HTTP status sent (NoResponse: none yet)
  amCalls,    \* number of requests received so far
  amFailed,   \* the await that rejected in the current call ("none")
  amBefore    \* tables lessons, groups and schedule_changes at arrival

\* the routers of index.js
VARIABLES
  rtPc,       \* where the request is: idle, in the stack, answered
  rtReq,      \* method, path and bearer of the request
  rtAt,       \* index of the app.use(...) entry the request has reached
  rtResp,     \* the HTTP status sent (NoResponse: none yet)
  rtData,     \* what the response body carries
  rtCalls     \* number of requests received so far

dayVars ==
  << today, tzWest, lessons, nextId, audit, free, tx, pc, req, client,
     oldRes, idx, resp, calls, ins, stmts, released, logged, auditRes,
     failedAt, before, prev >>

weekVars == << wkNow, wkOut >>
genVars == << gnTz, gnDay, gnOut, gnRun >>

createVars ==
  << crPc, crReq, crClient, crDates, crIds, crResp, crCalls, crThrew,
     crBefore >>

copyVars ==
  << cwPc, cwReq, cwSource, cwResp, cwCalls, cwFailed, cwBefore >>

adminVars ==
  << groups, nextGroupId, amPc, amOp, amReq, amRows, amCount, amResp,
     amCalls, amFailed, amBefore >>

routeVars == << rtPc, rtReq, rtAt, rtResp, rtData, rtCalls >>

vars ==
  << dayVars, weekVars, genVars, createVars, copyVars, adminVars,
     routeVars >>

\* What the handlers of one file leave alone: the state of the others.
notDay == << weekVars, genVars, createVars, copyVars, adminVars, routeVars >>
notWeek == << dayVars, genVars, createVars, copyVars, adminVars, routeVars >>
notGen == << dayVars, weekVars, createVars, copyVars, adminVars, routeVars >>

envVars == << today, tzWest >>
dbVars == << lessons, nextId, tx >>
histVars == << ins, stmts, released, logged, auditRes, failedAt, before >>

NoBefore == [lessons |-> {}, audit |-> << >>]

NoPrev == [body |-> NoReq.body, status |-> NoResponse, after |-> {},
           logged |-> 0]

\* ============================================================ pure helpers
Ids(rows) == {row.id : row \in rows}

\* a role check that only turns students away
RoleAllowedNotStudent(role) == role # "student"

\* line 12: req.user.role !== 'admin'
RoleAllowed(role) == role = "admin"

\* line 19: !date || !groupId || !Array.isArray(lessons)
BodyValid(body) ==
  /\ body.date # 0
  /\ body.groupId # 0
  /\ body.lessons.isArray

\* lines 25-26: new Date("YYYY-MM-DD") is midnight UTC of that day, and
\* setHours(0,0,0,0) moves it to the local midnight of the local day that
\* instant falls in: the previous day when the zone is behind UTC.
ScheduleDay(date, west) == IF west THEN date - 1 ELSE date

\* the comparison of line 27 turned around
IsPastReversed(date, now, west) == now < ScheduleDay(date, west)

\* line 27: scheduleDate < today
IsPast(date, now, west) == ScheduleDay(date, west) < now

\* lines 12-31: the status the synchronous checks answer with, or
\* NoResponse when the handler goes on to pool.connect()
Precheck(user, body, now, west) ==
  IF ~RoleAllowed(user.role) THEN HttpForbidden
  ELSE IF ~BodyValid(body) THEN HttpBadRequest
  ELSE IF IsPast(body.date, now, west) THEN HttpBadRequest
  ELSE NoResponse

\* line 63: !start_time || !end_time || !subject || !room || !type
LessonValid(l) == \A f \in Required : l[f] # 0

\* a loop that stops one entry early
LoopDoneEarly(i, items) == i >= Len(items)

\* line 53: for (const lesson of lessons)
LoopDone(i, items) == i > Len(items)

\* lines 53-94: what the handler awaits next once the loop stands at i:
\* COMMIT after the last entry, ROLLBACK (catch) when entry i is rejected
\* by line 63, the INSERT of entry i otherwise
NextAwait(i, items) ==
  IF LoopDone(i, items) THEN "commit"
  ELSE IF LessonValid(items[i]) THEN "insert"
  ELSE "rollback"

\* lines 69-90: the inserted row; teacher_id || null
RowOf(id, date, groupId, l) ==
  [id |-> id, group_id |-> groupId, lesson_date |-> date,
   start_time |-> l.start_time, end_time |-> l.end_time,
   subject |-> l.subject,
   teacher_id |-> IF l.teacher_id = 0 THEN Null ELSE l.teacher_id,
   room |-> l.room, type |-> l.type]

\* line 41: WHERE lesson_date = $1 AND group_id = $2, [date, groupId]
SelectMatch(row, date, groupId) ==
  row.lesson_date = date /\ row.group_id = groupId

\* the DELETE with its two parameters swapped: [groupId, date]
DeleteMatchSwapped(row, date, groupId) ==
  row.lesson_date = groupId /\ row.group_id = date

\* lines 47-49: WHERE lesson_date = $1 AND group_id = $2, [date, groupId]
DeleteMatch(row, date, groupId) ==
  row.lesson_date = date /\ row.group_id = groupId

\* an audit entry whose old value is read after the DELETE: no rows
AuditEntryAfterDelete(user, body, oldRows) ==
  [admin_id |-> user.id,
   action_type |-> "update_schedule_day",
   target_type |-> "schedule_day",
   target_id |-> Null,
   old_value |-> [date |-> body.date, lessons |-> {}],
   new_value |-> [date |-> body.date, groupId |-> body.groupId,
                  lessons |-> body.lessons.items]]

\* lines 95-110: the argument of logChange, as logChange stores it
\* (audit.service.js 61-75: the six columns, old/new value as JSON)
AuditEntry(user, body, oldRows) ==
  [admin_id |-> user.id,
   action_type |-> "update_schedule_day",
   target_type |-> "schedule_day",
   target_id |-> Null,
   old_value |-> [date |-> body.date, lessons |-> oldRows],
   new_value |-> [date |-> body.date, groupId |-> body.groupId,
                  lessons |-> body.lessons.items]]

\* a sink that keeps the latest record only
InsertChangeOverwrites(log, entry) == << entry >>

\* audit.service.js 61-75: INSERT INTO schedule_changes, the one statement
\* of the backend that writes the table
InsertChange(log, entry) == Append(log, entry)

\* logChange without its try/catch: a rejected INSERT is rethrown
LogChangeRethrows(sinkFailed) == sinkFailed

\* audit.service.js 60-84: the try/catch around pool.query; a rejected
\* INSERT is logged to the console and not rethrown
LogChangeThrows(sinkFailed) == FALSE

\* client.release() as the last statement of try and of catch, not in a
\* finally: skipped when the catch block itself throws
ReleaseCallsNoFinally(path) == IF path = "catchThrow" THEN 0 ELSE 1

\* lines 119-121: finally { client.release() } runs once on every way out
\* of the try: "ok" (line 113), "catch" (line 118), "catchThrow" (the
\* ROLLBACK of line 116 rejected)
ReleaseCalls(path) == 1

\* lines 38-116: every statement of the handler is client.query(...)
ConnFor(r, stmt) == client[r]

\* pg.Pool hands out an idle connection; connections are interchangeable
LowestFree == CHOOSE c \in free : \A d \in free : c <= d

\* ------------------------------------------------------------- the store
\* rows a statement on connection c sees
Visible(c) == {row \in lessons : row.id \notin tx[c].deleted} \cup tx[c].inserted

\* COMMIT publishes the transaction's deletes and inserts
TableAfterCommit(c) ==
  {row \in lessons : row.id \notin tx[c].deleted} \cup tx[c].inserted

\* a catch block that issues COMMIT where line 116 issues ROLLBACK
TableAfterRollbackCommits(c) == TableAfterCommit(c)

\* line 116: ROLLBACK discards them
TableAfterRollback(c) == lessons

\* ---------------------------------------------------- content of a day
PairRows(table, date, groupId) ==
  {row \in table : row.lesson_date = date /\ row.group_id = groupId}

Strip(row) ==
  [start_time |-> row.start_time, end_time |-> row.end_time,
   subject |-> row.subject, teacher_id |-> row.teacher_id,
   room |-> row.room, type |-> row.type]

\* the rows of a day as a multiset of field values (ids left out)
Content(rows) ==
  { <<Strip(x), Cardinality({y \in rows : Strip(y) = Strip(x)})>> : x \in rows }

\* the entries of a lessons list as the same kind of multiset; an absent
\* teacherId is a null teacher
EntryFields(l) ==
  [start_time |-> l.start_time, end_time |-> l.end_time,
   subject |-> l.subject,
   teacher_id |-> IF l.teacher_id = 0 THEN Null ELSE l.teacher_id,
   room |-> l.room, type |-> l.type]

ListContent(items) ==
  { <<EntryFields(items[i]),
      Cardinality({j \in DOMAIN items : items[j] = items[i]})>> :
      i \in DOMAIN items }

\* ================================================================== state
NoInfo == [weekNumber |-> 0, isEven |-> FALSE, weekType |-> "none",
           weekStart |-> << >>, weekEnd |-> << >>]

NotRun == << "not run" >>

NoRun == [weekType |-> Null, currentDate |-> [day |-> 0, tod |-> 0],
          dates |-> << >>]

\* The calendar services are not called while the chain of another
\* specification runs.
WeekIdle ==
  /\ wkNow = [day |-> 0, tod |-> 0]
  /\ wkOut = << >>

GenIdle ==
  /\ gnTz = 0
  /\ gnDay = 0
  /\ gnOut = << >>
  /\ gnRun = NoRun

NoCreate ==
  [user |-> [id |-> 0, role |-> "none"],
   body |-> [single_date |-> 0, day |-> 0, week |-> 0]]

NoCopy ==
  [user |-> [id |-> 0, role |-> "none"],
   body |-> [group_id |-> 0, from_week |-> 0, to_week |-> 0]]

NoAdmin ==
  [user |-> [id |-> 0, role |-> "none"],
   body |-> [group_id |-> 0, week |-> 0, old_teacher |-> << >>,
             new_teacher |-> << >>, name |-> << >>],
   params |-> [id |-> 0]]

NoTables == [lessons |-> {}, groups |-> {}, audit |-> << >>]

\* No request of the group and bulk handlers has arrived yet.
AdminQuiet ==
  /\ amPc = "idle"
  /\ amOp = "none"
  /\ amReq = NoAdmin
  /\ amRows = {}
  /\ amCount = 0
  /\ amResp = NoResponse
  /\ amFailed = "none"
  /\ amBefore = NoTables

AdminIdle ==
  /\ AdminQuiet
  /\ amCalls = 0
  /\ groups = {}
  /\ nextGroupId = 1

NoRoute == [method |-> "none", path |-> "none",
            user |-> [id |-> 0, role |-> "none"]]

RouteIdle ==
  /\ rtPc = "idle"
  /\ rtReq = NoRoute
  /\ rtAt = 0
  /\ rtResp = NoResponse
  /\ rtData = "none"
  /\ rtCalls = 0

\* No request of copyWeek is being handled.
CopyQuiet ==
  /\ cwPc = "idle"
  /\ cwReq = NoCopy
  /\ cwSource = {}
  /\ cwResp = NoResponse
  /\ cwFailed = "none"
  /\ cwBefore = NoBefore

CopyIdle == CopyQuiet /\ cwCalls = 0

\* No request of createLesson is being handled.
CreateQuiet ==
  /\ crPc = "idle"
  /\ crReq = NoCreate
  /\ crClient = NoClient
  /\ crDates = << >>
  /\ crIds = << >>
  /\ crResp = NoResponse
  /\ crThrew = FALSE
  /\ crBefore = {}

CreateIdle == CreateQuiet /\ crCalls = 0

\* No request of updateScheduleByDay is being handled.
DayStart ==
  /\ audit = << >>
  /\ free = Conns
  /\ tx = [c \in Conns |-> NoTx]
  /\ pc = [r \in Slots |-> "idle"]
  /\ req = [r \in Slots |-> NoReq]
  /\ client = [r \in Slots |-> NoClient]
  /\ oldRes = [r \in Slots |-> {}]
  /\ idx = [r \in Slots |-> 0]
  /\ resp = [r \in Slots |-> NoResponse]
  /\ ins = [r \in Slots |-> {}]
  /\ stmts = [r \in Slots |-> {}]
  /\ released = [r \in Slots |-> 0]
  /\ logged = [r \in Slots |-> 0]
  /\ auditRes = [r \in Slots |-> "none"]
  /\ failedAt = [r \in Slots |-> "none"]
  /\ before = [r \in Slots |-> NoBefore]
  /\ prev = NoPrev

DayInit ==
  /\ today \in 2..3
  /\ tzWest \in BOOLEAN
  /\ DayStart
  /\ calls = 0

\* Table lessons as the day handlers find it.
DaySeed ==
  /\ lessons = SeedRows
  /\ nextId = 4

Init ==
  /\ DayInit
  /\ DaySeed
  /\ WeekIdle
  /\ GenIdle
  /\ CreateIdle
  /\ CopyIdle
  /\ AdminIdle
  /\ RouteIdle

\* lines 10-35: a request arrives; role check, body validation, past-date
\* guard, then pool.connect() is awaited.
Call(r) ==
  /\ pc[r] = "idle"
  /\ calls < MaxCalls
  /\ \E q \in RequestsOf(r) :
       LET status == Precheck(q.user, q.body, today, tzWest) IN
       /\ req' = [req EXCEPT ![r] = q]
       /\ resp' = [resp EXCEPT ![r] = status]
       /\ pc' = [pc EXCEPT ![r] = IF status = NoResponse THEN "connect"
                                  ELSE "done"]
  /\ calls' = calls + 1
  /\ before' = [before EXCEPT ![r] = [lessons |-> lessons, audit |-> audit]]
  /\ UNCHANGED << notDay, envVars, dbVars, audit, free, client, oldRes, idx, ins,
                  stmts, released, logged, auditRes, failedAt, prev >>

\* line 35 resolves; line 38 issues BEGIN on the client.
Connect(r) ==
  /\ pc[r] = "connect"
  /\ free # {}
  /\ client' = [client EXCEPT ![r] = LowestFree]
  /\ free' = free \ {LowestFree}
  /\ pc' = [pc EXCEPT ![r] = "begin"]
  /\ UNCHANGED << notDay, envVars, dbVars, audit, req, oldRes, idx, resp, calls,
                  histVars, prev >>

\* line 35 rejects, outside the try: the handler's promise rejects and no
\* response is sent.
ConnectFail(r) ==
  /\ pc[r] = "connect"
  /\ pc' = [pc EXCEPT ![r] = "crashed"]
  /\ failedAt' = [failedAt EXCEPT ![r] = "connect"]
  /\ UNCHANGED << notDay, envVars, dbVars, audit, free, req, client, oldRes, idx,
                  resp, calls, ins, stmts, released, logged, auditRes,
                  before, prev >>

\* An awaited client.query of lines 38-94 rejects: control goes to the
\* catch block, which issues ROLLBACK (line 116). A COMMIT that returns an
\* error has aborted the transaction.
QueryFail(r, at) ==
  LET c == ConnFor(r, at) IN
  /\ pc[r] = at
  /\ pc' = [pc EXCEPT ![r] = "rollback"]
  /\ failedAt' = [failedAt EXCEPT ![r] = at]
  /\ stmts' = [stmts EXCEPT ![r] = @ \cup {c}]
  /\ tx' = IF at = "commit" THEN [tx EXCEPT ![c] = NoTx] ELSE tx
  /\ UNCHANGED << notDay, envVars, lessons, nextId, audit, free, req, client,
                  oldRes, idx, resp, calls, ins, released, logged,
                  auditRes, before, prev >>

BeginFail(r) == QueryFail(r, "begin")
SelectFail(r) == QueryFail(r, "select")
DeleteFail(r) == QueryFail(r, "delete")
InsertFail(r) == QueryFail(r, "insert")
CommitFail(r) == QueryFail(r, "commit")

\* line 38: BEGIN
BeginOk(r) ==
  LET c == ConnFor(r, "begin") IN
  /\ pc[r] = "begin"
  /\ tx' = [tx EXCEPT ![c] = [active |-> TRUE, deleted |-> {},
                              inserted |-> {}]]
  /\ stmts' = [stmts EXCEPT ![r] = @ \cup {c}]
  /\ pc' = [pc EXCEPT ![r] = "select"]
  /\ UNCHANGED << notDay, envVars, lessons, nextId, audit, free, req, client,
                  oldRes, idx, resp, calls, ins, released, logged,
                  auditRes, failedAt, before, prev >>

\* lines 40-43: SELECT * FROM lessons WHERE lesson_date = $1 AND group_id = $2
SelectOk(r) ==
  LET c == ConnFor(r, "select")
      b == req[r].body
  IN
  /\ pc[r] = "select"
  /\ oldRes' = [oldRes EXCEPT ![r] =
                  {row \in Visible(c) : SelectMatch(row, b.date, b.groupId)}]
  /\ stmts' = [stmts EXCEPT ![r] = @ \cup {c}]
  /\ pc' = [pc EXCEPT ![r] = "delete"]
  /\ UNCHANGED << notDay, envVars, dbVars, audit, free, req, client, idx, resp,
                  calls, ins, released, logged, auditRes, failedAt,
                  before, prev >>

\* lines 46-50: DELETE; then the loop of line 53 starts (first entry is
\* destructured and checked by line 63 before anything is awaited).
DeleteOk(r) ==
  LET c == ConnFor(r, "delete")
      b == req[r].body
      target == {row \in Visible(c) : DeleteMatch(row, b.date, b.groupId)}
      next == NextAwait(1, b.lessons.items)
  IN
  /\ pc[r] = "delete"
  /\ IF tx[c].active
       THEN /\ tx' = [tx EXCEPT ![c] =
                        [active |-> TRUE,
                         deleted |-> @.deleted \cup Ids(target \cap lessons),
                         inserted |-> @.inserted \ target]]
            /\ lessons' = lessons
       ELSE /\ lessons' = lessons \ target
            /\ tx' = tx
  /\ stmts' = [stmts EXCEPT ![r] = @ \cup {c}]
  /\ idx' = [idx EXCEPT ![r] = 1]
  /\ pc' = [pc EXCEPT ![r] = next]
  /\ failedAt' = [failedAt EXCEPT ![r] =
                    IF next = "rollback" THEN "validate" ELSE @]
  /\ UNCHANGED << notDay, envVars, nextId, audit, free, req, client, oldRes,
                  resp, calls, ins, released, logged, auditRes, before,
                  prev >>

\* lines 67-91: INSERT of entry idx; then the loop goes on to the next
\* entry (line 63), or to COMMIT (line 94).
InsertOk(r) ==
  LET c == ConnFor(r, "insert")
      b == req[r].body
      row == RowOf(nextId, b.date, b.groupId, b.lessons.items[idx[r]])
      next == NextAwait(idx[r] + 1, b.lessons.items)
  IN
  /\ pc[r] = "insert"
  /\ nextId' = nextId + 1
  /\ IF tx[c].active
       THEN /\ tx' = [tx EXCEPT ![c].inserted = @ \cup {row}]
            /\ lessons' = lessons
       ELSE /\ lessons' = lessons \cup {row}
            /\ tx' = tx
  /\ ins' = [ins EXCEPT ![r] = @ \cup {row.id}]
  /\ stmts' = [stmts EXCEPT ![r] = @ \cup {c}]
  /\ idx' = [idx EXCEPT ![r] = @ + 1]
  /\ pc' = [pc EXCEPT ![r] = next]
  /\ failedAt' = [failedAt EXCEPT ![r] =
                    IF next = "rollback" THEN "validate" ELSE @]
  /\ UNCHANGED << notDay, envVars, audit, free, req, client, oldRes, resp,
                  calls, released, logged, auditRes, before, prev >>

\* line 94: COMMIT; line 95 calls logChange, whose pool.query is awaited.
CommitOk(r) ==
  LET c == ConnFor(r, "commit") IN
  /\ pc[r] = "commit"
  /\ lessons' = TableAfterCommit(c)
  /\ tx' = [tx EXCEPT ![c] = NoTx]
  /\ stmts' = [stmts EXCEPT ![r] = @ \cup {c}]
  /\ pc' = [pc EXCEPT ![r] = "audit"]
  /\ UNCHANGED << notDay, envVars, nextId, audit, free, req, client, oldRes, idx,
                  resp, calls, ins, released, logged, auditRes, failedAt,
                  before, prev >>

\* lines 113 and 119-121: res.json(...) and the finally block
Respond(r, status, path) ==
  /\ resp' = [resp EXCEPT ![r] = status]
  /\ released' = [released EXCEPT ![r] = @ + ReleaseCalls(path)]
  /\ free' = IF ReleaseCalls(path) > 0 THEN free \cup {client[r]} ELSE free
  /\ pc' = [pc EXCEPT ![r] = IF status = NoResponse THEN "crashed"
                             ELSE "done"]

\* what follows `await logChange(...)` (line 95): line 113 when it
\* resolves, the catch block (line 116) if it were to reject
AfterLogChange(r, sinkFailed) ==
  IF LogChangeThrows(sinkFailed)
    THEN /\ pc' = [pc EXCEPT ![r] = "rollback"]
         /\ UNCHANGED << resp, released, free >>
    ELSE Respond(r, HttpOk, "ok")

\* audit.service.js 61-75: the INSERT INTO schedule_changes succeeds
\* (pool.query takes an idle connection for the statement).
AuditOk(r) ==
  /\ pc[r] = "audit"
  /\ free # {}
  /\ audit' = InsertChange(audit, AuditEntry(req[r].user, req[r].body, oldRes[r]))
  /\ logged' = [logged EXCEPT ![r] = @ + 1]
  /\ auditRes' = [auditRes EXCEPT ![r] = "ok"]
  /\ AfterLogChange(r, FALSE)
  /\ UNCHANGED << notDay, envVars, dbVars, req, client, oldRes, idx, calls, ins,
                  stmts, failedAt, before, prev >>

\* audit.service.js 76-84: the INSERT INTO schedule_changes rejects.
AuditFail(r) ==
  /\ pc[r] = "audit"
  /\ auditRes' = [auditRes EXCEPT ![r] = "failed"]
  /\ AfterLogChange(r, TRUE)
  /\ UNCHANGED << notDay, envVars, dbVars, audit, req, client, oldRes, idx, calls,
                  ins, stmts, logged, failedAt, before, prev >>

\* lines 116-121: ROLLBACK resolves, 500 is sent, the client is released.
RollbackOk(r) ==
  LET c == ConnFor(r, "rollback") IN
  /\ pc[r] = "rollback"
  /\ lessons' = TableAfterRollback(c)
  /\ tx' = [tx EXCEPT ![c] = NoTx]
  /\ stmts' = [stmts EXCEPT ![r] = @ \cup {c}]
  /\ Respond(r, HttpServerError, "catch")
  /\ UNCHANGED << notDay, envVars, nextId, audit, req, client, oldRes, idx,
                  calls, ins, logged, auditRes, failedAt, before, prev >>

\* line 116 rejects (the connection is lost, the server aborts the open
\* transaction): the catch block throws, finally releases the client, no
\* response is sent.
RollbackFail(r) ==
  LET c == ConnFor(r, "rollback") IN
  /\ pc[r] = "rollback"
  /\ tx' = [tx EXCEPT ![c] = NoTx]
  /\ stmts' = [stmts EXCEPT ![r] = @ \cup {c}]
  /\ Respond(r, NoResponse, "catchThrow")
  /\ UNCHANGED << notDay, envVars, lessons, nextId, audit, req, client,
                  oldRes, idx, calls, ins, logged, auditRes, failedAt,
                  before, prev >>

\* The handler's promise has settled; the slot takes the next request.
Return(r) ==
  /\ pc[r] \in {"done", "crashed"}
  /\ prev' = IF resp[r] = HttpOk
               THEN [body |-> req[r].body, status |-> resp[r],
                     after |-> Content(PairRows(lessons, req[r].body.date,
                                                req[r].body.groupId)),
                     logged |-> logged[r]]
               ELSE NoPrev
  /\ pc' = [pc EXCEPT ![r] = "idle"]
  /\ req' = [req EXCEPT ![r] = NoReq]
  /\ client' = [client EXCEPT ![r] = NoClient]
  /\ oldRes' = [oldRes EXCEPT ![r] = {}]
  /\ idx' = [idx EXCEPT ![r] = 0]
  /\ resp' = [resp EXCEPT ![r] = NoResponse]
  /\ ins' = [ins EXCEPT ![r] = {}]
  /\ stmts' = [stmts EXCEPT ![r] = {}]
  /\ released' = [released EXCEPT ![r] = 0]
  /\ logged' = [logged EXCEPT ![r] = 0]
  /\ auditRes' = [auditRes EXCEPT ![r] = "none"]
  /\ failedAt' = [failedAt EXCEPT ![r] = "none"]
  /\ before' = [before EXCEPT ![r] = NoBefore]
  /\ UNCHANGED << notDay, envVars, dbVars, audit, free, calls >>

Step(r) ==
  \/ Call(r)
  \/ Connect(r)
  \/ ConnectFail(r)
  \/ BeginOk(r)
  \/ BeginFail(r)
  \/ SelectOk(r)
  \/ SelectFail(r)
  \/ DeleteOk(r)
  \/ DeleteFail(r)
  \/ InsertOk(r)
  \/ InsertFail(r)
  \/ CommitOk(r)
  \/ CommitFail(r)
  \/ AuditOk(r)
  \/ AuditFail(r)
  \/ RollbackOk(r)
  \/ RollbackFail(r)
  \/ Return(r)

\* Requests are handled concurrently, interleaved at the awaits.
Next == \E r \in Slots : Step(r)

Spec == Init /\ [][Next]_vars

\* Requests arrive one after the other: one handler at a time.
NextSeq == Step("r1")

SpecSeq == Init /\ [][NextSeq]_vars

\* ================================================================ claims
\* Vocabulary of the claims: the Result kinds of replaceDay.
ErrorKind(status) ==
  IF status = HttpOk THEN "success"
  ELSE IF status = HttpBadRequest THEN "ValidationError"
  ELSE IF status = HttpForbidden THEN "AuthorizationError"
  ELSE IF status = HttpNotFound THEN "NotFoundError"
  ELSE IF status = HttpServerError THEN "ServerError"
  ELSE "none"

Finished(r) == pc[r] \in {"done", "crashed"}
Body(r) == req[r].body
Items(r) == req[r].body.lessons.items
DayRows(table, r) == PairRows(table, Body(r).date, Body(r).groupId)
AfterBegin == {"begin", "select", "delete", "validate", "insert", "commit"}
Admitted(r) ==
  /\ req[r].user.role = "admin"
  /\ Body(r).date # 0 /\ Body(r).groupId # 0 /\ Body(r).lessons.isArray

\* C1: a replaceDay call that failed at a step after BEGIN (a rejected
\* BEGIN, SELECT, DELETE, INSERT or COMMIT, or an entry with a missing
\* required field) leaves table lessons exactly as it was when the call
\* arrived, and no row its INSERT statements created is in the table.
C1_RollbackRestores ==
  \A r \in Slots :
    (Finished(r) /\ failedAt[r] \in AfterBegin) =>
      /\ lessons = before[r].lessons
      /\ DayRows(lessons, r) = DayRows(before[r].lessons, r)
      /\ Ids(lessons) \cap ins[r] = {}

\* a call whose COMMIT was rejected after the DELETE hit rows and the
\* INSERTs created rows has finished
C1_Witness ==
  \E r \in Slots :
    /\ Finished(r)
    /\ failedAt[r] = "commit"
    /\ oldRes[r] # {}
    /\ Cardinality(ins[r]) = 2

\* C2: after a replaceDay(date, groupId, L) of an admin has answered with
\* success, the rows of (date, groupId) are exactly the entries of L, one
\* row per entry, none of the rows the pair had before is left, and the
\* rows of the other days are untouched; with L = [] the pair is empty.
C2_ExactReplace ==
  \A r \in Slots :
    (pc[r] = "done" /\ resp[r] = HttpOk) =>
      /\ Content(DayRows(lessons, r)) = ListContent(Items(r))
      /\ Cardinality(DayRows(lessons, r)) = Len(Items(r))
      /\ DayRows(lessons, r) \cap DayRows(before[r].lessons, r) = {}
      /\ Ids(DayRows(lessons, r)) \cap Ids(before[r].lessons) = {}
      /\ lessons \ DayRows(lessons, r)
           = before[r].lessons \ DayRows(before[r].lessons, r)
      /\ Items(r) = << >> => DayRows(lessons, r) = {}

\* a successful call with the empty list on a day that had rows, written
\* by an earlier successful call
C2_Witness ==
  \E r \in Slots :
    /\ pc[r] = "done" /\ resp[r] = HttpOk
    /\ Items(r) = << >>
    /\ DayRows(before[r].lessons, r) # {}
    /\ prev.status = HttpOk
    /\ Len(prev.body.lessons.items) = 2

C4_PastDateRejected ==
  \A r \in Slots :
    (pc[r] # "idle" /\ Admitted(r) /\ Body(r).date < today) =>
      /\ pc[r] = "done"
      /\ ErrorKind(resp[r]) = "ValidationError"
      /\ client[r] = NoClient /\ stmts[r] = {}
      /\ lessons = before[r].lessons
      /\ audit = before[r].audit

\* a past-date call on a day that has rows was rejected
C4_Witness ==
  \E r \in Slots :
    /\ pc[r] = "done" /\ Admitted(r) /\ Body(r).date < today
    /\ resp[r] = HttpBadRequest
    /\ DayRows(lessons, r) # {}

\* C5 (as claimed): when an entry of the list lacks a required field the
\* call aborts with no partial write and answers with a ValidationError.
C5_MissingFieldIsValidationError ==
  \A r \in Slots :
    (/\ pc[r] = "done" /\ Admitted(r)
     /\ \E i \in DOMAIN Items(r) : \E f \in Required : Items(r)[i][f] = 0
     /\ failedAt[r] = "validate") =>
      /\ lessons = before[r].lessons
      /\ ErrorKind(resp[r]) = "ValidationError"

\* C6: a call of a non-admin is answered with an AuthorizationError and a
\* call of an admin with date or groupId missing or lessons not a list
\* with a ValidationError, both at once: no connection is taken, no
\* statement runs, table lessons and the audit log stay as they were;
\* the role is checked first.
C6_RejectedBeforeConnect ==
  \A r \in Slots :
    pc[r] # "idle" =>
      LET malformed == \/ Body(r).date = 0
                       \/ Body(r).groupId = 0
                       \/ ~Body(r).lessons.isArray
          untouched == /\ pc[r] = "done"
                       /\ client[r] = NoClient /\ stmts[r] = {}
                       /\ released[r] = 0
                       /\ lessons = before[r].lessons
                       /\ audit = before[r].audit
      IN
      /\ req[r].user.role # "admin" =>
           ErrorKind(resp[r]) = "AuthorizationError" /\ untouched
      /\ (req[r].user.role = "admin" /\ malformed) =>
           ErrorKind(resp[r]) = "ValidationError" /\ untouched

\* a teacher's call with a malformed body was answered with 403
C6_Witness ==
  \E r \in Slots :
    /\ pc[r] = "done"
    /\ req[r].user.role = "teacher"
    /\ ~Body(r).lessons.isArray
    /\ resp[r] = HttpForbidden

\* C7: the audit log only grows at its end; a call that committed and
\* whose audit write worked has appended exactly one row, with the
\* acting admin's id, the rows the pair had before the call as old value
\* and the full new list as new value; a call that has not answered
\* with success, or whose audit write failed, has appended none.
C7_OneAuditPerCommit ==
  \A r \in Slots :
    pc[r] # "idle" =>
      LET n == Len(before[r].audit) IN
      /\ Len(audit) >= n
      /\ SubSeq(audit, 1, n) = before[r].audit
      /\ (pc[r] = "done" /\ resp[r] = HttpOk /\ auditRes[r] = "ok") =>
           /\ Len(audit) = n + 1
           /\ audit[n + 1].admin_id = req[r].user.id
           /\ audit[n + 1].action_type = "update_schedule_day"
           /\ audit[n + 1].old_value.lessons = DayRows(before[r].lessons, r)
           /\ audit[n + 1].new_value.lessons = Items(r)
           /\ audit[n + 1].new_value.date = Body(r).date
           /\ audit[n + 1].new_value.groupId = Body(r).groupId
      /\ ~(pc[r] = "done" /\ resp[r] = HttpOk /\ auditRes[r] = "ok") =>
           audit = before[r].audit

\* the second admin's call replaced a day that had rows and was audited
C7_Witness ==
  \E r \in Slots :
    /\ pc[r] = "done" /\ resp[r] = HttpOk /\ auditRes[r] = "ok"
    /\ req[r].user.id = 4
    /\ DayRows(before[r].lessons, r) # {}
    /\ Len(Items(r)) = 2
    /\ Len(audit) = 2

\* C8: a call whose audit write failed after its COMMIT still answers
\* with success, and the rows it committed are in table lessons.
C8_AuditFailureSwallowed ==
  \A r \in Slots :
    (Finished(r) /\ auditRes[r] = "failed") =>
      /\ pc[r] = "done"
      /\ resp[r] = HttpOk
      /\ ins[r] \subseteq Ids(lessons)
      /\ Content(DayRows(lessons, r)) = ListContent(Items(r))

\* a call that inserted two rows and whose audit write failed has finished
C8_Witness ==
  \E r \in Slots :
    /\ Finished(r) /\ auditRes[r] = "failed"
    /\ Cardinality(ins[r]) = 2

\* C9 (as claimed): the response does not wait for the audit write: while
\* the audit write of a committed call is still in flight, the response
\* has been sent.
C9_ResponseDoesNotWaitForAudit ==
  \A r \in Slots : pc[r] = "audit" => resp[r] # NoResponse

\* C10: a call releases the connection it took exactly once on every way
\* out (and holds it until then), releases nothing when it took none, and
\* all its statements run on that connection.
C10_ReleasedOnceSameConnection ==
  \A r \in Slots :
    /\ stmts[r] \subseteq {client[r]} \ {NoClient}
    /\ (Finished(r) /\ client[r] # NoClient) =>
         released[r] = 1 /\ client[r] \in free
    /\ (~Finished(r) /\ client[r] # NoClient) =>
         released[r] = 0 /\ client[r] \notin free
    /\ client[r] = NoClient => released[r] = 0

\* a call whose ROLLBACK was rejected, after an entry with a missing field
C10_Witness ==
  \E r \in Slots :
    /\ pc[r] = "crashed"
    /\ failedAt[r] = "validate"
    /\ client[r] # NoClient
    /\ released[r] = 1

\* ============================================================== calendar
\* ECMAScript Date in a zone with a fixed offset from UTC.  A Date is the
\* pair of its local fields: day (days since 1970-01-01) and tod (minutes
\* since local midnight).  Time is counted in minutes, the code's
\* milliseconds divided by 60000.
MinutesPerDay == 24 * 60

\* MakeDay: the day number of year y, month m (1..12) and day-of-month d.
\* d may lie outside the month: the result moves into neighbouring months.
DaysFromCivil(y, m, d) ==
  LET yy == IF m <= 2 THEN y - 1 ELSE y
      era == yy \div 400
      yoe == yy - era * 400
      mp == IF m > 2 THEN m - 3 ELSE m + 9
      doy == (153 * mp + 2) \div 5 + d - 1
      doe == yoe * 365 + yoe \div 4 - yoe \div 100 + doy
  IN  era * 146097 + doe - 719468

\* YearFromTime, MonthFromTime, DateFromTime.
CivilFromDays(z) ==
  LET zz == z + 719468
      era == zz \div 146097
      doe == zz - era * 146097
      yoe == (doe - doe \div 1460 + doe \div 36524 - doe \div 146096) \div 365
      doy == doe - (365 * yoe + yoe \div 4 - yoe \div 100)
      mp == (5 * doy + 2) \div 153
      d == doy - (153 * mp + 2) \div 5 + 1
      m == IF mp < 10 THEN mp + 3 ELSE mp - 9
  IN  [year |-> IF m <= 2 THEN yoe + era * 400 + 1 ELSE yoe + era * 400,
       month |-> m, date |-> d]

GetFullYear(t) == CivilFromDays(t.day).year
GetMonth(t) == CivilFromDays(t.day).month - 1
GetDate(t) == CivilFromDays(t.day).date
GetDay(t) == (t.day + 4) % 7

\* new Date(year, monthIndex, date): local midnight.
NewDate(year, monthIndex, date) ==
  [day |-> DaysFromCivil(year, monthIndex + 1, date), tod |-> 0]

\* t.setDate(n): same month and time of day, day-of-month n, normalised.
SetDate(t, n) ==
  [t EXCEPT !.day = DaysFromCivil(GetFullYear(t), GetMonth(t) + 1, n)]

\* a - b of two Dates, in minutes.
Elapsed(a, b) == (a.day - b.day) * MinutesPerDay + a.tod - b.tod

\* ------------------------------------------------------------ getWeekInfo
FormatLocalDate(date) ==
  << GetFullYear(date), GetMonth(date) + 1, GetDate(date) >>

AcademicYear(now) ==
  IF GetMonth(now) >= 8 THEN GetFullYear(now) ELSE GetFullYear(now) - 1

TargetDateSixDays(now, weekOffset) ==
  SetDate(now, GetDate(now) + weekOffset * 6)

TargetDate(now, weekOffset) ==
  SetDate(now, GetDate(now) + weekOffset * 7)

DiffToMondaySundayForward(dayOfWeek) == 1 - dayOfWeek

DiffToMonday(dayOfWeek) == IF dayOfWeek = 0 THEN 0 - 6 ELSE 1 - dayOfWeek

GetWeekInfo(now, weekOffset) ==
  LET academicYearStart == NewDate(AcademicYear(now), 8, 1)
      targetDate == TargetDate(now, weekOffset)
      weekStart ==
        SetDate(targetDate,
                GetDate(targetDate) + DiffToMonday(GetDay(targetDate)))
      weekEnd == SetDate(weekStart, GetDate(weekStart) + 6)
      diffDays == Elapsed(weekStart, academicYearStart) \div MinutesPerDay
      weekNumber == diffDays \div 7 + 1
  IN  [weekNumber |-> weekNumber,
       isEven |-> weekNumber % 2 = 0,
       weekType |-> IF weekNumber % 2 = 0 THEN "even" ELSE "odd",
       weekStart |-> FormatLocalDate(weekStart),
       weekEnd |-> FormatLocalDate(weekEnd)]

\* Inputs: every day of NumYears years from 2023 on, at midnight and at
\* noon, and the week offsets -MaxOffset..MaxOffset.
NumYears == 3
MaxOffset == 1

Offsets == (0 - MaxOffset)..MaxOffset

NowSet ==
  { [day |-> z, tod |-> t] :
      z \in DaysFromCivil(2023, 1, 1)..DaysFromCivil(2023 + NumYears, 1, 0),
      t \in {0, 12 * 60} }

HandlersQuiet == DayInit /\ today = 2 /\ tzWest = FALSE

DayQuiet == HandlersQuiet /\ DaySeed

InitWeek ==
  /\ DayQuiet
  /\ GenIdle
  /\ CreateIdle
  /\ CopyIdle
  /\ AdminIdle
  /\ RouteIdle
  /\ wkNow \in NowSet
  /\ wkOut = [o \in Offsets |-> NoInfo]

\* One request: getWeekInfo(weekOffset) at the server's current time.
CallGetWeekInfo(weekOffset) ==
  /\ wkOut[weekOffset] = NoInfo
  /\ wkOut' = [wkOut EXCEPT ![weekOffset] = GetWeekInfo(wkNow, weekOffset)]
  /\ UNCHANGED << wkNow, notWeek >>

NextWeek == \E weekOffset \in Offsets : CallGetWeekInfo(weekOffset)

SpecWeek == InitWeek /\ [][NextWeek]_vars

\* Vocabulary of the calendar claims, independent of the Date arithmetic
\* above: the proleptic Gregorian calendar by counting.
IsLeap(y) == (y % 4 = 0 /\ y % 100 # 0) \/ y % 400 = 0

DaysIn(y, m) ==
  IF m = 2 THEN (IF IsLeap(y) THEN 29 ELSE 28)
  ELSE IF m \in {4, 6, 9, 11} THEN 30 ELSE 31

RECURSIVE DaysBeforeMonth(_, _)
DaysBeforeMonth(y, m) ==
  IF m = 1 THEN 0 ELSE DaysBeforeMonth(y, m - 1) + DaysIn(y, m - 1)

\* Leap years before year y, counted from year 1.
LeapsBefore(y) == (y - 1) \div 4 - (y - 1) \div 100 + (y - 1) \div 400

DaysBeforeYear(y) == 365 * (y - 1970) + LeapsBefore(y) - LeapsBefore(1970)

IsCalendarDate(s) ==
  /\ Len(s) = 3
  /\ s[1] >= 1970
  /\ s[2] \in 1..12
  /\ s[3] \in 1..DaysIn(s[1], s[2])

\* The day number of the text "YYYY-MM-DD".
DayNumber(s) == DaysBeforeYear(s[1]) + DaysBeforeMonth(s[1], s[2]) + s[3] - 1

\* 0 = Monday .. 6 = Sunday.
IsoWeekday(z) == (z + 3) % 7

Called(o) == wkOut # << >> /\ wkOut[o] # NoInfo

\* C11: called on Friday 2023-09-01 with weekOffset 0, getWeekInfo returns
\* weekStart 2023-08-28, weekEnd 2023-09-03, weekNumber 1 and isEven
\* false; and whatever the weekday of September 1, the week that contains
\* September 1 has weekNumber 1.
C11_SeptemberFirstWeekIsOne ==
  \A o \in Offsets : Called(o) =>
    LET out == wkOut[o]
        sep1 == DayNumber(<< out.weekEnd[1], 9, 1 >>)
    IN  /\ sep1 \in DayNumber(out.weekStart)..DayNumber(out.weekEnd)
             => out.weekNumber = 1 /\ ~ out.isEven
        /\ (wkNow.day = DayNumber(<< 2023, 9, 1 >>) /\ o = 0)
             => /\ out.weekStart = << 2023, 8, 28 >>
                /\ out.weekEnd = << 2023, 9, 3 >>
                /\ out.weekNumber = 1
                /\ ~ out.isEven

\* C12: weekStart is a Monday, the Monday on or before the day
\* now + 7 * weekOffset, and weekEnd is the Sunday six days after it.
C12_WeekStartIsMondayOnOrBefore ==
  \A o \in Offsets : Called(o) =>
    LET out == wkOut[o]
        target == wkNow.day + 7 * o
    IN  /\ IsCalendarDate(out.weekStart)
        /\ IsCalendarDate(out.weekEnd)
        /\ IsoWeekday(DayNumber(out.weekStart)) = 0
        /\ DayNumber(out.weekStart) \in (target - 6)..target
        /\ DayNumber(out.weekEnd) = DayNumber(out.weekStart) + 6
        /\ IsoWeekday(DayNumber(out.weekEnd)) = 6

\* A shifted week that starts in one month and ends in the next, for a
\* now that is a Sunday.
C12_Witness ==
  \E o \in Offsets :
    /\ o # 0
    /\ Called(o)
    /\ IsoWeekday(wkNow.day) = 6
    /\ wkOut[o].weekStart[2] # wkOut[o].weekEnd[2]

\* C13: for one now, the weekStart at weekOffset + 1 is exactly seven days
\* after the weekStart at weekOffset.
C13_NextOffsetIsSevenDaysLater ==
  \A o \in Offsets :
    (o + 1 \in Offsets /\ Called(o) /\ Called(o + 1)) =>
      DayNumber(wkOut[o + 1].weekStart) = DayNumber(wkOut[o].weekStart) + 7

\* Two consecutive offsets answered across the turn of a year.
C13_Witness ==
  \E o \in Offsets :
    /\ o + 1 \in Offsets
    /\ Called(o)
    /\ Called(o + 1)
    /\ wkOut[o + 1].weekStart[1] = wkOut[o].weekStart[1] + 1

\* ---------------------------------------------------------- generateDates
\* new Date('YYYY-MM-DD'): midnight UTC of that day, seen through the local
\* fields of a zone tz minutes ahead of UTC.
ParseDate(y, m, d, tz) ==
  LET local == DaysFromCivil(y, m, d) * MinutesPerDay + tz
  IN  [day |-> local \div MinutesPerDay, tod |-> local % MinutesPerDay]

SEMESTER_START(tz) == ParseDate(2023, 9, 1, tz)
SEMESTER_END(tz) == ParseDate(2023, 12, 31, tz)

\* Math.ceil(a / b) for b > 0.
Ceil(a, b) == (a + b - 1) \div b

\* The ISO-8601 week of the local calendar day of d.
GetWeekNumber(d) ==
  LET utc == DaysFromCivil(GetFullYear(d), GetMonth(d) + 1, GetDate(d))
      utcDay == (utc + 4) % 7
      thursday ==
        DaysFromCivil(CivilFromDays(utc).year, CivilFromDays(utc).month,
                      CivilFromDays(utc).date + 4
                        - (IF utcDay = 0 THEN 7 ELSE utcDay))
      yearStart == DaysFromCivil(CivilFromDays(thursday).year, 1, 1)
  IN  Ceil((thursday - yearStart) + 1, 7)

MatchOddAlways(weekType, isEven) ==
  \/ weekType = 0
  \/ weekType = 1 /\ isEven
  \/ weekType = 2

Match(weekType, isEven) ==
  \/ weekType = 0
  \/ weekType = 1 /\ isEven
  \/ weekType = 2 /\ ~ isEven

\* Inputs: dayOfWeek 0..MaxDayOfWeek (0 = Monday; 6 is no teaching day),
\* weekType 0..MaxWeekType (0 any, 1 even, 2 odd; 3 is no parity), and a
\* server zone behind UTC, at UTC, or ahead of UTC.
MaxDayOfWeek == 6
MaxWeekType == 3

DaysOfWeek == 0..MaxDayOfWeek
WeekTypes == 0..MaxWeekType
TzOffsets == {0 - 300, 0, 180}

InitGen ==
  /\ DayQuiet
  /\ WeekIdle
  /\ CreateIdle
  /\ CopyIdle
  /\ AdminIdle
  /\ RouteIdle
  /\ gnTz \in TzOffsets
  /\ gnDay \in DaysOfWeek
  /\ gnOut = [w \in WeekTypes |-> NotRun]
  /\ gnRun = NoRun

\* generateDates(gnDay, weekType) is entered: lines 17-23.  The function
\* is synchronous: one call runs at a time.
GenerateDates(weekType) ==
  /\ gnRun = NoRun
  /\ gnOut[weekType] = NotRun
  /\ gnRun' = [weekType |-> weekType, currentDate |-> SEMESTER_START(gnTz),
               dates |-> << >>]
  /\ UNCHANGED << gnTz, gnDay, gnOut, notGen >>

\* getWeekNumber(currentDate) and currentDate.setDate(getDate() + 1)
\* depend on the calendar day of currentDate only: both are tabulated over
\* the days the loop can visit (Aug 31, where a zone behind UTC puts the
\* start of the semester, to Jan 1).
LoopDays == DaysFromCivil(2023, 8, 31) .. DaysFromCivil(2024, 1, 1)

WeekNumberOfDay ==
  [z \in LoopDays |-> GetWeekNumber([day |-> z, tod |-> 0])]

DayAfter ==
  [z \in LoopDays |->
     SetDate([day |-> z, tod |-> 0], GetDate([day |-> z, tod |-> 0]) + 1).day]

\* One pass of the while loop of lines 25-43.
GenerateLoop ==
  /\ gnRun # NoRun
  /\ Elapsed(gnRun.currentDate, SEMESTER_END(gnTz)) <= 0
  /\ LET currentDate == gnRun.currentDate
         targetJsDay == gnDay + 1
         pushed ==
           IF /\ GetDay(currentDate) = targetJsDay
              /\ Match(gnRun.weekType,
                       WeekNumberOfDay[currentDate.day] % 2 = 0)
           THEN Append(gnRun.dates, currentDate) ELSE gnRun.dates
     IN  gnRun' = [gnRun EXCEPT
                     !.dates = pushed,
                     !.currentDate =
                        [currentDate EXCEPT !.day = DayAfter[currentDate.day]]]
  /\ UNCHANGED << gnTz, gnDay, gnOut, notGen >>

\* The loop condition fails: return dates (line 45).
GenerateReturn ==
  /\ gnRun # NoRun
  /\ Elapsed(gnRun.currentDate, SEMESTER_END(gnTz)) > 0
  /\ gnOut' = [gnOut EXCEPT ![gnRun.weekType] = gnRun.dates]
  /\ gnRun' = NoRun
  /\ UNCHANGED << gnTz, gnDay, notGen >>

NextGen ==
  \/ \E weekType \in WeekTypes : GenerateDates(weekType)
  \/ GenerateLoop
  \/ GenerateReturn

SpecGen == InitGen /\ [][NextGen]_vars

\* Vocabulary of the generator claims.
Ran(w) == gnOut # << >> /\ gnOut[w] # NotRun

Range(seq) == { seq[i] : i \in DOMAIN seq }

\* The calendar day a returned Date shows (and the DATE the store keeps).
CalendarDays(seq) == { DayNumber(FormatLocalDate(seq[i])) : i \in DOMAIN seq }

YearOfDay(z) ==
  CHOOSE y \in 1970..2100 : DaysBeforeYear(y) <= z /\ z < DaysBeforeYear(y + 1)

\* ISO-8601: the week of a day is the week of its Thursday, counted within
\* the Thursday's year.
IsoWeek(z) ==
  LET thursday == z - IsoWeekday(z) + 3
  IN  (thursday - DaysBeforeYear(YearOfDay(thursday))) \div 7 + 1

SemesterWindow == DayNumber(<< 2023, 9, 1 >>)..DayNumber(<< 2023, 12, 31 >>)

ParityOk(w, week) ==
  \/ w = 0
  \/ w = 1 /\ week % 2 = 0
  \/ w = 2 /\ week % 2 = 1

\* C14: for a weekday 0..5, the dates of EVEN and of ODD are disjoint and
\* together they are exactly the dates of ANY.
C14_EvenOddPartitionAny ==
  (gnDay \in 0..5 /\ Ran(0) /\ Ran(1) /\ Ran(2)) =>
    /\ Range(gnOut[1]) \cap Range(gnOut[2]) = {}
    /\ Range(gnOut[1]) \cup Range(gnOut[2]) = Range(gnOut[0])
    /\ Len(gnOut[1]) + Len(gnOut[2]) = Len(gnOut[0])

\* All three parities generated for a teaching day, with dates in each.
C14_Witness ==
  /\ gnDay \in 0..5
  /\ Ran(0) /\ Ran(1) /\ Ran(2)
  /\ gnOut[1] # << >>
  /\ gnOut[2] # << >>

\* C15: for a weekday 0..5 and a parity ANY, EVEN or ODD, generateDates
\* returns, strictly ascending and without duplicates, exactly the days of
\* the window 2023-09-01..2023-12-31 that fall on the weekday and whose
\* ISO-8601 week has the parity: never a Sunday, never a day outside.
C15_ExactlyTheWindowDays ==
  \A w \in 0..2 : (gnDay \in 0..5 /\ Ran(w)) =>
    /\ \A i, j \in DOMAIN gnOut[w] :
         i < j => Elapsed(gnOut[w][i], gnOut[w][j]) < 0
    /\ \A i \in DOMAIN gnOut[w] : IsCalendarDate(FormatLocalDate(gnOut[w][i]))
    /\ CalendarDays(gnOut[w]) =
         { z \in SemesterWindow :
             IsoWeekday(z) = gnDay /\ ParityOk(w, IsoWeek(z)) }

\* ============================================================ createLesson
\* POST /api/admin/lessons (routes/admin.routes.js 93: authMiddleware,
\* adminOnly, createLesson).  The handler shares the pool, table lessons and
\* table schedule_changes with the other handlers; columns its INSERT does
\* not name are left out of the row.
MaxCreates == 2

\* A field the JSON body does not carry.
Undefined == 0 - 2

CreateBody(single_date, day, week) ==
  [group_id |-> 1, day |-> day, start_time |-> 1, end_time |-> 2,
   subject |-> 1, teacher |-> 1, room |-> 1, type |-> 1, week |-> week,
   single_date |-> single_date]

\* Bodies: one date; a series on even Mondays; neither; a series on
\* Sundays; a series with no parity the generator knows; a weekday without
\* a parity; a date and a series at once.
CreateBodies ==
  { CreateBody(DaysFromCivil(2023, 10, 2), Undefined, Undefined),
    CreateBody(0, 0, 1),
    CreateBody(0, Undefined, Undefined),
    CreateBody(0, 6, 0),
    CreateBody(0, 0, 3),
    CreateBody(0, 2, Undefined),
    CreateBody(DaysFromCivil(2023, 10, 2), 0, 0) }

CreateRequests ==
  { [user |-> u, body |-> b] : u \in {v \in Users : v.id \in {1, 3}},
                               b \in CreateBodies }

\* role.middleware.js 33-40
AdminOnly(user) == user.role = "admin"

\* lines 182-189: the inserted row
CreateRowOf(id, b, date) ==
  [id |-> id, group_id |-> b.group_id, lesson_date |-> date,
   start_time |-> b.start_time, end_time |-> b.end_time,
   subject |-> b.subject, teacher |-> b.teacher, room |-> b.room,
   type |-> b.type]

\* logChange(req.user.id, 'create_lesson_series', 'lesson', ...): the one
\* parameter of logChange is destructured as an object (audit.service.js
\* 52-59), so a call with positional arguments binds adminId, actionType
\* and targetType to undefined and the defaults to null: the INSERT gets
\* six NULLs.
LogChangePositional(adminId, actionType, targetType) ==
  [admin_id |-> Null, action_type |-> Null, target_type |-> Null,
   target_id |-> Null, old_value |-> Null, new_value |-> Null]

slotVars ==
  << pc, req, client, oldRes, idx, resp, calls, histVars, prev >>

InitCreate ==
  /\ DayQuiet
  /\ WeekIdle
  /\ CreateIdle
  /\ CopyIdle
  /\ AdminIdle
  /\ RouteIdle
  /\ gnTz \in {0 - 300, 180}
  /\ gnDay = 0
  /\ gnOut = << >>
  /\ gnRun = NoRun

\* The request passes authMiddleware; adminOnly answers 403 or lets
\* createLesson run up to `await pool.connect()` (line 160).
CrCall ==
  /\ crPc = "idle"
  /\ crCalls < MaxCreates
  /\ \E q \in CreateRequests :
       /\ crReq' = q
       /\ crResp' = IF AdminOnly(q.user) THEN NoResponse ELSE HttpForbidden
       /\ crPc' = IF AdminOnly(q.user) THEN "connect" ELSE "done"
  /\ crCalls' = crCalls + 1
  /\ crBefore' = lessons
  /\ UNCHANGED << envVars, dbVars, audit, free, slotVars, weekVars, adminVars, routeVars, copyVars, genVars,
                  crClient, crDates, crIds, crThrew >>

\* line 160 resolves; line 163 issues BEGIN.
CrConnect ==
  /\ crPc = "connect"
  /\ free # {}
  /\ crClient' = LowestFree
  /\ free' = free \ {LowestFree}
  /\ crPc' = "begin"
  /\ UNCHANGED << envVars, dbVars, audit, slotVars, weekVars, adminVars, routeVars, copyVars, genVars,
                  crReq, crDates, crIds, crResp, crCalls, crThrew,
                  crBefore >>

\* line 160 rejects, outside the try: no response is sent.
CrConnectFail ==
  /\ crPc = "connect"
  /\ crPc' = "crashed"
  /\ UNCHANGED << envVars, dbVars, audit, free, slotVars, weekVars, adminVars, routeVars, copyVars, genVars,
                  crReq, crClient, crDates, crIds, crResp, crCalls, crThrew,
                  crBefore >>

\* line 163 resolves; lines 165-174: datesToInsert is the single date, or
\* generateDates(day, week) is entered, or it stays empty and line 177
\* throws.
CrBeginOk ==
  LET b == crReq.body IN
  /\ crPc = "begin"
  /\ tx' = [tx EXCEPT ![crClient] = [active |-> TRUE, deleted |-> {},
                                     inserted |-> {}]]
  /\ IF b.single_date # 0
       THEN /\ crDates' = << b.single_date >>
            /\ crPc' = "insert"
            /\ UNCHANGED << gnDay, gnRun, crThrew >>
       ELSE IF b.week # Undefined /\ b.day # Undefined
         THEN /\ gnDay' = b.day
              /\ gnRun' = [weekType |-> b.week,
                           currentDate |-> SEMESTER_START(gnTz),
                           dates |-> << >>]
              /\ crPc' = "generate"
              /\ UNCHANGED << crDates, crThrew >>
         ELSE /\ crThrew' = TRUE
              /\ crPc' = "rollback"
              /\ UNCHANGED << gnDay, gnRun, crDates >>
  /\ UNCHANGED << envVars, lessons, nextId, audit, free, slotVars, weekVars, adminVars, routeVars, copyVars,
                  gnTz, gnOut, crReq, crClient, crIds, crResp, crCalls,
                  crBefore >>

\* One pass of the loop of generateDates, called on line 173.
CrGenerateLoop ==
  /\ crPc = "generate"
  /\ GenerateLoop

\* generateDates returns (line 173); line 176 throws when no date came
\* out, else the first INSERT is issued.  A Date is stored as the local
\* calendar day it shows.
CrGenerated ==
  /\ crPc = "generate"
  /\ Elapsed(gnRun.currentDate, SEMESTER_END(gnTz)) > 0
  /\ crDates' = [i \in DOMAIN gnRun.dates |-> gnRun.dates[i].day]
  /\ gnRun' = NoRun
  /\ crThrew' = (gnRun.dates = << >>)
  /\ crPc' = IF gnRun.dates = << >> THEN "rollback" ELSE "insert"
  /\ UNCHANGED << dayVars, weekVars, adminVars, routeVars, copyVars, gnTz, gnDay, gnOut, crReq, crClient,
                  crIds, crResp, crCalls, crBefore >>

\* An awaited client.query of lines 163-199 rejects: control goes to the
\* catch block (line 203).  A COMMIT that returns an error has aborted the
\* transaction.
CrQueryFail(at) ==
  /\ crPc = at
  /\ crPc' = "rollback"
  /\ tx' = IF at = "commit" THEN [tx EXCEPT ![crClient] = NoTx] ELSE tx
  /\ UNCHANGED << envVars, lessons, nextId, audit, free, slotVars, weekVars, adminVars, routeVars, copyVars,
                  genVars, crReq, crClient, crDates, crIds, crResp, crCalls,
                  crThrew, crBefore >>

CrBeginFail == CrQueryFail("begin")
CrInsertFail == CrQueryFail("insert")
CrCommitFail == CrQueryFail("commit")

\* lines 182-191: the INSERT of the next date; after the last one line 193
\* calls logChange.
CrInsertOk ==
  LET date == crDates[Len(crIds) + 1]
      row == CreateRowOf(nextId, crReq.body, date)
  IN
  /\ crPc = "insert"
  /\ nextId' = nextId + 1
  /\ tx' = [tx EXCEPT ![crClient].inserted = @ \cup {row}]
  /\ crIds' = Append(crIds, row.id)
  /\ crPc' = IF Len(crIds) + 1 = Len(crDates) THEN "audit" ELSE "insert"
  /\ UNCHANGED << envVars, lessons, audit, free, slotVars, weekVars, adminVars, routeVars, copyVars,
                  genVars, crReq, crClient, crDates, crResp, crCalls,
                  crThrew, crBefore >>

\* lines 193-197 and audit.service.js 61-75: the INSERT INTO
\* schedule_changes succeeds (on a connection of its own, before COMMIT).
CrAuditOk ==
  /\ crPc = "audit"
  /\ free # {}
  /\ audit' = InsertChange(audit, LogChangePositional(crReq.user.id,
                                                "create_lesson_series",
                                                "lesson"))
  /\ crPc' = "commit"
  /\ UNCHANGED << envVars, dbVars, free, slotVars, weekVars, adminVars, routeVars, copyVars, genVars, crReq,
                  crClient, crDates, crIds, crResp, crCalls, crThrew,
                  crBefore >>

\* audit.service.js 76-84: the INSERT rejects and logChange swallows it.
CrAuditFail ==
  /\ crPc = "audit"
  /\ crPc' = IF LogChangeThrows(TRUE) THEN "rollback" ELSE "commit"
  /\ UNCHANGED << envVars, dbVars, audit, free, slotVars, weekVars, adminVars, routeVars, copyVars, genVars,
                  crReq, crClient, crDates, crIds, crResp, crCalls, crThrew,
                  crBefore >>

\* lines 199-200 and 207: COMMIT resolves, res.json, finally releases.
CrCommitOk ==
  /\ crPc = "commit"
  /\ lessons' = TableAfterCommit(crClient)
  /\ tx' = [tx EXCEPT ![crClient] = NoTx]
  /\ crResp' = HttpOk
  /\ free' = free \cup {crClient}
  /\ crPc' = "done"
  /\ UNCHANGED << envVars, nextId, audit, slotVars, weekVars, adminVars, routeVars, copyVars, genVars,
                  crReq, crClient, crDates, crIds, crCalls, crThrew,
                  crBefore >>

\* lines 203-207: ROLLBACK resolves, 500 is sent, finally releases.
CrRollbackOk ==
  /\ crPc = "rollback"
  /\ lessons' = TableAfterRollback(crClient)
  /\ tx' = [tx EXCEPT ![crClient] = NoTx]
  /\ crResp' = HttpServerError
  /\ free' = free \cup {crClient}
  /\ crPc' = "done"
  /\ UNCHANGED << envVars, nextId, audit, slotVars, weekVars, adminVars, routeVars, copyVars, genVars,
                  crReq, crClient, crDates, crIds, crCalls, crThrew,
                  crBefore >>

\* line 203 rejects: the catch block throws, finally releases, no response.
CrRollbackFail ==
  /\ crPc = "rollback"
  /\ tx' = [tx EXCEPT ![crClient] = NoTx]
  /\ free' = free \cup {crClient}
  /\ crPc' = "crashed"
  /\ UNCHANGED << envVars, lessons, nextId, audit, slotVars, weekVars, adminVars, routeVars, copyVars,
                  genVars, crReq, crClient, crDates, crIds, crResp, crCalls,
                  crThrew, crBefore >>

\* The handler's promise has settled; the next request may arrive.
CrReturn ==
  /\ crPc \in {"done", "crashed"}
  /\ crPc' = "idle"
  /\ crReq' = NoCreate
  /\ crClient' = NoClient
  /\ crDates' = << >>
  /\ crIds' = << >>
  /\ crResp' = NoResponse
  /\ crThrew' = FALSE
  /\ crBefore' = {}
  /\ UNCHANGED << envVars, dbVars, audit, free, slotVars, weekVars, adminVars, routeVars, copyVars, genVars,
                  crCalls >>

NextCreate ==
  \/ CrCall
  \/ CrConnect
  \/ CrConnectFail
  \/ CrBeginOk
  \/ CrBeginFail
  \/ CrGenerateLoop
  \/ CrGenerated
  \/ CrInsertOk
  \/ CrInsertFail
  \/ CrAuditOk
  \/ CrAuditFail
  \/ CrCommitOk
  \/ CrCommitFail
  \/ CrRollbackOk
  \/ CrRollbackFail
  \/ CrReturn

SpecCreate == InitCreate /\ [][NextCreate]_vars

\* C16: when the dates of a lesson creation come out empty, createLesson
\* reports a validation error, not a generic server error, and persists no
\* lesson row.
C16_EmptyDatesIsValidationError ==
  (crThrew /\ crPc \in {"done", "crashed"}) =>
    /\ ErrorKind(crResp) = "ValidationError"
    /\ lessons = crBefore

\* ================================================================ copyWeek
\* POST /api/admin/lessons/copy-week (routes/admin.routes.js 49:
\* authMiddleware, adminOnly, copyWeek).  Every statement is a pool.query of
\* its own: it runs in autocommit on an idle connection.  The rows are
\* weekly templates: table lessons with the columns day and week.
MaxCopies == 2

Template(id, group_id, day, start_time, subject, teacher, week) ==
  [id |-> id, group_id |-> group_id, day |-> day,
   start_time |-> start_time, end_time |-> start_time + 1,
   subject |-> subject, teacher |-> teacher, room |-> teacher,
   type |-> subject, week |-> week]

\* Group 1 with three odd-week templates (two of them alike), two
\* even-week ones and one for every week; group 2 with one odd and one
\* even.  Or: group 1 with even-week templates only.
TemplateSeeds ==
  { { Template(1, 1, 0, 1, 1, 1, 2), Template(2, 1, 0, 1, 1, 1, 2),
      Template(3, 1, 2, 3, 2, 2, 2), Template(4, 1, 1, 1, 3, 1, 1),
      Template(5, 1, 0, 1, 1, 1, 1), Template(6, 1, 4, 5, 2, 1, 0),
      Template(7, 2, 0, 1, 1, 2, 2), Template(8, 2, 3, 3, 3, 2, 1) },
    { Template(1, 1, 1, 1, 3, 1, 1), Template(2, 1, 0, 1, 1, 1, 1),
      Template(7, 2, 0, 1, 1, 2, 0) } }

CopyBody(group_id, from_week, to_week) ==
  [group_id |-> group_id, from_week |-> from_week, to_week |-> to_week]

CopyRequests ==
  { [user |-> [id |-> 1, role |-> "admin"], body |-> CopyBody(g, f, t)] :
      g \in 1..2, f \in 0..2, t \in 0..2 }
  \cup
  { [user |-> [id |-> 1, role |-> "admin"], body |-> b] :
      b \in { CopyBody(0, 2, 1), CopyBody(1, Undefined, 1),
              CopyBody(1, 2, Undefined) } }
  \cup
  { [user |-> u, body |-> CopyBody(1, 2, 1)] :
      u \in { [id |-> 3, role |-> "student"], [id |-> 2, role |-> "teacher"],
              [id |-> 0, role |-> "none"] } }

\* line 241: !group_id || from_week === undefined || to_week === undefined
CopyBodyValid(b) ==
  b.group_id # 0 /\ b.from_week # Undefined /\ b.to_week # Undefined

\* a route without authMiddleware and adminOnly
GuardsNone(user) == NoResponse

\* routes/admin.routes.js: router.<verb>(path, authMiddleware, adminOnly,
\* handler).  authMiddleware (401 lines 90-91 and 104-107 of the file that
\* follows adminOnly in middleware/role.middleware.js) sets req.user from a
\* valid token; a user of role "none" stands for a request without a valid
\* token.  adminOnly answers 403 (lines 34-37).  NoResponse: next() reaches
\* the handler.
Guards(user) ==
  IF user.role = "none" THEN HttpUnauthorized
  ELSE IF ~ AdminOnly(user) THEN HttpForbidden
  ELSE NoResponse

\* lines 240-243, after authMiddleware and adminOnly: the status answered
\* before any query, or NoResponse when the handler goes on to the SELECT
CopyPrecheck(user, b) ==
  IF Guards(user) # NoResponse THEN Guards(user)
  ELSE IF ~ CopyBodyValid(b) THEN HttpBadRequest
  ELSE NoResponse

\* WHERE group_id = $1 AND week = $2
WeekMatch(row, group_id, week) == row.group_id = group_id /\ row.week = week

WeekRows(table, group_id, week) ==
  { row \in table : WeekMatch(row, group_id, week) }

\* a check of line 251 that never finds the source empty
SourceEmptyNever(rows) == FALSE

\* line 251: source.rows.length === 0
SourceEmpty(rows) == rows = {}

\* an INSERT ... SELECT that keeps the week of the source row
CopyRowKeepsWeek(id, row, group_id, to_week) ==
  [id |-> id, group_id |-> group_id, day |-> row.day,
   start_time |-> row.start_time, end_time |-> row.end_time,
   subject |-> row.subject, teacher |-> row.teacher, room |-> row.room,
   type |-> row.type, week |-> row.week]

\* lines 258-263: SELECT $1, day, start_time, end_time, subject, teacher,
\* room, type, $2
CopyRow(id, row, group_id, to_week) ==
  [id |-> id, group_id |-> group_id, day |-> row.day,
   start_time |-> row.start_time, end_time |-> row.end_time,
   subject |-> row.subject, teacher |-> row.teacher, room |-> row.room,
   type |-> row.type, week |-> to_week]

\* The rows the INSERT ... SELECT adds: one per source row, ids taken from
\* the sequence in the order of the source ids.
CopiedRows(src, first, group_id, to_week) ==
  { CopyRow(first + Cardinality({x \in src : x.id < row.id}), row, group_id,
            to_week) : row \in src }

InitCopy ==
  /\ HandlersQuiet
  /\ lessons \in TemplateSeeds
  /\ nextId = 9
  /\ WeekIdle
  /\ GenIdle
  /\ CreateIdle
  /\ CopyIdle
  /\ AdminIdle
  /\ RouteIdle

\* lines 238-246: the request passes authMiddleware and adminOnly, the body
\* is checked, the SELECT is issued.
CwCall ==
  /\ cwPc = "idle"
  /\ cwCalls < MaxCopies
  /\ \E q \in CopyRequests :
       /\ cwReq' = q
       /\ cwResp' = CopyPrecheck(q.user, q.body)
       /\ cwPc' = IF CopyPrecheck(q.user, q.body) = NoResponse
                    THEN "select" ELSE "done"
  /\ cwCalls' = cwCalls + 1
  /\ cwBefore' = [lessons |-> lessons, audit |-> audit]
  /\ UNCHANGED << envVars, dbVars, audit, free, slotVars, weekVars, adminVars, routeVars, genVars,
                  createVars, cwSource, cwFailed >>

\* An awaited pool.query of lines 246-265 rejects: the catch block answers
\* 500 (lines 279-281).  Nothing is undone.
CwQueryFail(at) ==
  /\ cwPc = at
  /\ cwFailed' = at
  /\ cwResp' = HttpServerError
  /\ cwPc' = "done"
  /\ UNCHANGED << envVars, dbVars, audit, free, slotVars, weekVars, adminVars, routeVars, genVars,
                  createVars, cwReq, cwSource, cwCalls, cwBefore >>

CwSelectFail == CwQueryFail("select")
CwDeleteFail == CwQueryFail("delete")
CwInsertFail == CwQueryFail("insert")

\* lines 246-256: the SELECT resolves; 404 when it found nothing, else the
\* DELETE is issued.
CwSelectOk ==
  LET b == cwReq.body
      rows == WeekRows(lessons, b.group_id, b.from_week)
  IN
  /\ cwPc = "select"
  /\ free # {}
  /\ cwSource' = rows
  /\ IF SourceEmpty(rows)
       THEN cwResp' = HttpNotFound /\ cwPc' = "done"
       ELSE cwResp' = cwResp /\ cwPc' = "delete"
  /\ UNCHANGED << envVars, dbVars, audit, free, slotVars, weekVars, adminVars, routeVars, genVars,
                  createVars, cwReq, cwCalls, cwFailed, cwBefore >>

\* line 256: the DELETE of the target week resolves; the INSERT is issued.
CwDeleteOk ==
  LET b == cwReq.body IN
  /\ cwPc = "delete"
  /\ free # {}
  /\ lessons' = lessons \ WeekRows(lessons, b.group_id, b.to_week)
  /\ cwPc' = "insert"
  /\ UNCHANGED << envVars, nextId, tx, audit, free, slotVars, weekVars, adminVars, routeVars,
                  genVars, createVars, cwReq, cwSource, cwResp, cwCalls,
                  cwFailed, cwBefore >>

\* lines 258-265: INSERT ... SELECT reads the source week as the table
\* stands now; then logChange is called (line 268).
CwInsertOk ==
  LET b == cwReq.body
      src == WeekRows(lessons, b.group_id, b.from_week)
  IN
  /\ cwPc = "insert"
  /\ free # {}
  /\ lessons' = lessons \cup CopiedRows(src, nextId, b.group_id, b.to_week)
  /\ nextId' = nextId + Cardinality(src)
  /\ cwPc' = "audit"
  /\ UNCHANGED << envVars, tx, audit, free, slotVars, weekVars, adminVars, routeVars, genVars,
                  createVars, cwReq, cwSource, cwResp, cwCalls, cwFailed,
                  cwBefore >>

\* lines 268-278: logChange resolves after its INSERT; res.json.
CwAuditOk ==
  /\ cwPc = "audit"
  /\ free # {}
  /\ audit' = InsertChange(audit, LogChangePositional(cwReq.user.id, "copy_week",
                                                "lessons"))
  /\ cwResp' = HttpOk
  /\ cwPc' = "done"
  /\ UNCHANGED << envVars, dbVars, free, slotVars, weekVars, adminVars, routeVars, genVars,
                  createVars, cwReq, cwSource, cwCalls, cwFailed, cwBefore >>

\* audit.service.js 76-84: the INSERT rejects, logChange swallows it;
\* res.json.
CwAuditFail ==
  /\ cwPc = "audit"
  /\ cwResp' = IF LogChangeThrows(TRUE) THEN HttpServerError ELSE HttpOk
  /\ cwPc' = "done"
  /\ UNCHANGED << envVars, dbVars, audit, free, slotVars, weekVars, adminVars, routeVars, genVars,
                  createVars, cwReq, cwSource, cwCalls, cwFailed, cwBefore >>

\* The handler's promise has settled; the next request may arrive.
CwReturn ==
  /\ cwPc = "done"
  /\ cwPc' = "idle"
  /\ cwReq' = NoCopy
  /\ cwSource' = {}
  /\ cwResp' = NoResponse
  /\ cwFailed' = "none"
  /\ cwBefore' = NoBefore
  /\ UNCHANGED << envVars, dbVars, audit, free, slotVars, weekVars, adminVars, routeVars, genVars,
                  createVars, cwCalls >>

NextCopy ==
  \/ CwCall
  \/ CwSelectOk
  \/ CwSelectFail
  \/ CwDeleteOk
  \/ CwDeleteFail
  \/ CwInsertOk
  \/ CwInsertFail
  \/ CwAuditOk
  \/ CwAuditFail
  \/ CwReturn

SpecCopy == InitCopy /\ [][NextCopy]_vars

\* Vocabulary of the copyWeek claims.
CwAdmitted ==
  /\ cwPc \in {"select", "delete", "insert", "audit", "done"}
  /\ CopyPrecheck(cwReq.user, cwReq.body) = NoResponse

CwSucceeded == cwPc = "done" /\ cwResp = HttpOk

\* The field values of a template: everything but id, group and week.
TemplateFields(row) ==
  [day |-> row.day, start_time |-> row.start_time,
   end_time |-> row.end_time, subject |-> row.subject,
   teacher |-> row.teacher, room |-> row.room, type |-> row.type]

\* Templates as a multiset of field values.
TemplateBag(rows) ==
  { << TemplateFields(x),
       Cardinality({y \in rows : TemplateFields(y) = TemplateFields(x)}) >> :
      x \in rows }

SourceBefore ==
  WeekRows(cwBefore.lessons, cwReq.body.group_id, cwReq.body.from_week)
TargetBefore ==
  WeekRows(cwBefore.lessons, cwReq.body.group_id, cwReq.body.to_week)
SourceNow == WeekRows(lessons, cwReq.body.group_id, cwReq.body.from_week)
TargetNow == WeekRows(lessons, cwReq.body.group_id, cwReq.body.to_week)

\* C17: after a successful copyWeek(groupId, fromParity, toParity) with
\* fromParity # toParity, the templates of (groupId, toParity) are exactly
\* copies of those (groupId, fromParity) had (same count and field values),
\* none of toParity's earlier templates remains, and fromParity's and every
\* other group's templates are unchanged.
C17_TargetBecomesCopyOfSource ==
  (CwSucceeded /\ cwReq.body.from_week # cwReq.body.to_week) =>
    /\ TemplateBag(TargetNow) = TemplateBag(SourceBefore)
    /\ Cardinality(TargetNow) = Cardinality(SourceBefore)
    /\ Ids(TargetNow) \cap Ids(cwBefore.lessons) = {}
    /\ SourceNow = SourceBefore
    /\ lessons \ TargetNow = cwBefore.lessons \ TargetBefore

\* Three odd-week templates copied over two even-week ones.
C17_Witness ==
  /\ CwSucceeded
  /\ cwReq.body.from_week = 2
  /\ cwReq.body.to_week = 1
  /\ Cardinality(SourceBefore) = 3
  /\ Cardinality(TargetBefore) = 2
  /\ Cardinality(TargetNow) = 3

\* C18: copyWeek(groupId, p, p) loses no data: the templates of
\* (groupId, p) have the same field values and count afterwards.
C18_SameParityLosesNothing ==
  (CwSucceeded /\ cwReq.body.from_week = cwReq.body.to_week) =>
    /\ TemplateBag(SourceNow) = TemplateBag(SourceBefore)
    /\ Cardinality(SourceNow) = Cardinality(SourceBefore)

\* C19: copyWeek is all-or-nothing: at no moment are the templates of
\* toParity deleted while the copies are not yet inserted, and when the
\* insert fails toParity's prior templates are still there.
C19_CopyIsAllOrNothing ==
  CwAdmitted =>
    /\ \/ TargetNow = TargetBefore
       \/ TemplateBag(TargetNow) = TemplateBag(SourceBefore)
    /\ (cwPc = "done" /\ cwFailed = "insert") => TargetNow = TargetBefore

\* C20: copyWeek returns NotFound when (groupId, fromParity) has no
\* templates; it then deletes nothing, inserts nothing and writes no audit
\* record.
C20_NoSourceIsNotFound ==
  (CwAdmitted /\ cwPc = "done" /\ cwFailed # "select"
     /\ SourceBefore = {}) =>
    /\ ErrorKind(cwResp) = "NotFoundError"
    /\ lessons = cwBefore.lessons
    /\ audit = cwBefore.audit

\* NotFound answered for a group whose target week has templates.
C20_Witness ==
  /\ cwPc = "done"
  /\ cwResp = HttpNotFound
  /\ SourceBefore = {}
  /\ TargetBefore # {}

\* ============================ clearWeek, replaceTeacher, createGroup, deleteGroup
\* DELETE /api/admin/lessons/clear-week, PATCH /api/admin/lessons/
\* replace-teacher, POST /api/admin/groups, DELETE /api/admin/groups/:id
\* (routes/admin.routes.js: authMiddleware, adminOnly, handler).  Every
\* statement is a pool.query of its own.  A text value is the sequence of
\* its characters, so that trimming is computed.
MaxAdminCalls == 2

RECURSIVE TrimStart(_)
TrimStart(s) ==
  IF s # << >> /\ Head(s) = " " THEN TrimStart(Tail(s)) ELSE s

RECURSIVE TrimEnd(_)
TrimEnd(s) ==
  IF s # << >> /\ s[Len(s)] = " " THEN TrimEnd(SubSeq(s, 1, Len(s) - 1))
  ELSE s

\* String.prototype.trim: white space removed at both ends
Trim(s) == TrimEnd(TrimStart(s))

NameA == << "a" >>
NameB == << "b" >>
NameC == << "c" >>
NameD == << "d" >>

\* Table groups: groups 1 and 2 have templates, group 3 has none.
GroupSeed ==
  { [id |-> 1, name |-> NameA], [id |-> 2, name |-> NameB],
    [id |-> 3, name |-> NameC] }

\* Table lessons: group 1 with two odd-week templates, one even-week one
\* and one for every week whose teacher was stored with a leading blank;
\* group 2 with one odd and one even.
TeacherSeed ==
  { Template(1, 1, 0, 1, 1, NameA, 2), Template(2, 1, 2, 3, 2, NameB, 2),
    Template(3, 1, 1, 1, 3, NameA, 1),
    Template(4, 1, 4, 5, 2, << " ", "a" >>, 0),
    Template(5, 2, 0, 1, 1, NameA, 2), Template(6, 2, 3, 3, 3, NameB, 1) }

AdminBody(group_id, week, old_teacher, new_teacher, name) ==
  [group_id |-> group_id, week |-> week, old_teacher |-> old_teacher,
   new_teacher |-> new_teacher, name |-> name]

AdminRequest(user, body, id) ==
  [user |-> user, body |-> body, params |-> [id |-> id]]

TheAdmin == [id |-> 1, role |-> "admin"]

NotAdmins ==
  { [id |-> 2, role |-> "teacher"], [id |-> 3, role |-> "student"],
    [id |-> 0, role |-> "none"] }

ClearBody(group_id, week) == AdminBody(group_id, week, << >>, << >>, << >>)

ClearRequests ==
  { AdminRequest(TheAdmin, ClearBody(g, w), 0) : g \in 1..3, w \in 0..2 }
  \cup
  { AdminRequest(TheAdmin, b, 0) :
      b \in { ClearBody(0, 2), ClearBody(1, Undefined) } }
  \cup
  { AdminRequest(u, ClearBody(1, 2), 0) : u \in NotAdmins }

ReplaceBody(group_id, old_teacher, new_teacher) ==
  AdminBody(group_id, 0, old_teacher, new_teacher, << >>)

ReplaceRequests ==
  { AdminRequest(TheAdmin, ReplaceBody(g, old, new), 0) :
      g \in 1..2,
      old \in { NameA, << "a", " " >>, << " ", "a" >>, NameC },
      new \in { NameB, << " ", "c", " " >> } }
  \cup
  { AdminRequest(TheAdmin, b, 0) :
      b \in { ReplaceBody(0, NameA, NameB), ReplaceBody(1, << >>, NameB),
              ReplaceBody(1, NameA, << >>) } }
  \cup
  { AdminRequest(u, ReplaceBody(1, NameA, NameB), 0) : u \in NotAdmins }

GroupBody(name) == AdminBody(0, 0, << >>, << >>, name)

CreateGroupRequests ==
  { AdminRequest(TheAdmin, GroupBody(n), 0) :
      n \in { NameD, << " ", "d" >>, NameC, << >> } }
  \cup
  { AdminRequest([id |-> 3, role |-> "student"], GroupBody(NameD), 0) }

DeleteGroupRequests ==
  { AdminRequest(TheAdmin, GroupBody(<< >>), id) : id \in {1, 3, 9} }
  \cup
  { AdminRequest([id |-> 3, role |-> "student"], GroupBody(<< >>), 1) }

AdminRequests(op) ==
  IF op = "clearWeek" THEN ClearRequests
  ELSE IF op = "replaceTeacher" THEN ReplaceRequests
  ELSE IF op = "createGroup" THEN CreateGroupRequests
  ELSE DeleteGroupRequests

\* line 295: !group_id || week === undefined
ClearBodyValid(b) == b.group_id # 0 /\ b.week # Undefined

\* line 341: !group_id || !old_teacher || !new_teacher ("" is falsy)
ReplaceBodyValid(b) ==
  b.group_id # 0 /\ b.old_teacher # << >> /\ b.new_teacher # << >>

\* line 48: !name
GroupBodyValid(b) == b.name # << >>

\* The body check of each handler; deleteGroup has none.
AdminBodyValid(op, b) ==
  IF op = "clearWeek" THEN ClearBodyValid(b)
  ELSE IF op = "replaceTeacher" THEN ReplaceBodyValid(b)
  ELSE IF op = "createGroup" THEN GroupBodyValid(b)
  ELSE TRUE

\* The status answered before any query (authMiddleware, adminOnly, body
\* check), or NoResponse when the handler goes on to its first query.
AdminPrecheck(op, q) ==
  IF Guards(q.user) # NoResponse THEN Guards(q.user)
  ELSE IF ~ AdminBodyValid(op, q.body) THEN HttpBadRequest
  ELSE NoResponse

\* the first await of each handler
FirstQuery(op) == IF op = "createGroup" THEN "insert" ELSE "select"

\* a comparison of teacher names that ignores white space at the ends
TeacherMatchTrimmed(row, group_id, teacher) ==
  row.group_id = group_id /\ Trim(row.teacher) = teacher

\* lines 349 and 356: WHERE group_id = $1 AND teacher = $2
TeacherMatch(row, group_id, teacher) ==
  row.group_id = group_id /\ row.teacher = teacher

TeacherRows(table, group_id, teacher) ==
  { row \in table : TeacherMatch(row, group_id, teacher) }

\* line 355: SET teacher = $1
WithTeacher(row, teacher) == [row EXCEPT !.teacher = teacher]

\* a DELETE that also removes the templates for every week (week = 0)
ClearMatchWithEvery(row, group_id, week) ==
  row.group_id = group_id /\ row.week \in {week, 0}

\* lines 302 and 307: WHERE group_id = $1 AND week = $2
ClearMatch(row, group_id, week) == WeekMatch(row, group_id, week)

ClearRows(table, group_id, week) ==
  { row \in table : ClearMatch(row, group_id, week) }

\* the first argument of the positional logChange call of each handler
ActionType(op) ==
  IF op = "clearWeek" THEN "clear_week"
  ELSE IF op = "replaceTeacher" THEN "replace_teacher"
  ELSE IF op = "createGroup" THEN "create_group"
  ELSE "delete_group"

TargetType(op) ==
  IF op \in {"clearWeek", "replaceTeacher"} THEN "lessons" ELSE "group"

\* lines 311 and 361: result.rowCount > 0
ShouldLog(count) == count > 0

\* src/unnamed/part_002 line 10: group_id INTEGER REFERENCES groups(id),
\* with no ON DELETE clause: NO ACTION, the DELETE of a referenced group
\* is rejected.
Referenced(table, id) == \E row \in table : row.group_id = id

\* Tables lessons and groups as the group and bulk handlers find them.
AdminSeed ==
  /\ lessons = TeacherSeed
  /\ nextId = 7
  /\ groups = GroupSeed
  /\ nextGroupId = 4

InitAdmin ==
  /\ HandlersQuiet
  /\ AdminSeed
  /\ WeekIdle
  /\ GenIdle
  /\ CreateIdle
  /\ CopyIdle
  /\ RouteIdle
  /\ AdminQuiet
  /\ amCalls = 0

notAdmin ==
  << envVars, tx, free, slotVars, weekVars, genVars, createVars, copyVars,
     routeVars >>

\* A request arrives at one of the four routes: authMiddleware, adminOnly,
\* the body check, and the first query is issued.
AmCall(op) ==
  /\ amPc = "idle"
  /\ amCalls < MaxAdminCalls
  /\ \E q \in AdminRequests(op) :
       /\ amReq' = q
       /\ amResp' = AdminPrecheck(op, q)
       /\ amPc' = IF AdminPrecheck(op, q) = NoResponse THEN FirstQuery(op)
                  ELSE "done"
  /\ amOp' = op
  /\ amCalls' = amCalls + 1
  /\ amBefore' = [lessons |-> lessons, groups |-> groups, audit |-> audit]
  /\ UNCHANGED << notAdmin, lessons, nextId, audit, groups, nextGroupId,
                  amRows, amCount, amFailed >>

ClearWeek == AmCall("clearWeek")
ReplaceTeacher == AmCall("replaceTeacher")
CreateGroup == AmCall("createGroup")
DeleteGroup == AmCall("deleteGroup")

\* An awaited pool.query of the handler rejects: its catch block answers
\* 500.  Nothing is undone.
AmQueryFail(op, at) ==
  /\ amOp = op
  /\ amPc = at
  /\ amFailed' = at
  /\ amResp' = HttpServerError
  /\ amPc' = "done"
  /\ UNCHANGED << notAdmin, lessons, nextId, audit, groups, nextGroupId,
                  amOp, amReq, amRows, amCount, amCalls, amBefore >>

ClearSelectFail == AmQueryFail("clearWeek", "select")
ClearDeleteFail == AmQueryFail("clearWeek", "delete")
ReplaceSelectFail == AmQueryFail("replaceTeacher", "select")
ReplaceUpdateFail == AmQueryFail("replaceTeacher", "update")
GroupInsertFail == AmQueryFail("createGroup", "insert")
GroupSelectFail == AmQueryFail("deleteGroup", "select")
GroupDeleteFail == AmQueryFail("deleteGroup", "delete")

\* After the statement that changes rows: logChange is awaited when the
\* handler calls it, else res.json.
AfterWrite(log) ==
  /\ amPc' = IF log THEN "audit" ELSE "done"
  /\ amResp' = IF log THEN amResp ELSE HttpOk

\* clearWeek lines 301-305: the SELECT resolves; the DELETE is issued.
ClearSelectOk ==
  /\ amOp = "clearWeek"
  /\ amPc = "select"
  /\ free # {}
  /\ amRows' = ClearRows(lessons, amReq.body.group_id, amReq.body.week)
  /\ amPc' = "delete"
  /\ UNCHANGED << notAdmin, lessons, nextId, audit, groups, nextGroupId,
                  amOp, amReq, amCount, amResp, amCalls, amFailed, amBefore >>

\* clearWeek lines 306-323: the DELETE resolves with its rowCount.
ClearDeleteOk ==
  LET gone == ClearRows(lessons, amReq.body.group_id, amReq.body.week) IN
  /\ amOp = "clearWeek"
  /\ amPc = "delete"
  /\ free # {}
  /\ lessons' = lessons \ gone
  /\ amCount' = Cardinality(gone)
  /\ AfterWrite(ShouldLog(Cardinality(gone)))
  /\ UNCHANGED << notAdmin, nextId, audit, groups, nextGroupId, amOp, amReq,
                  amRows, amCalls, amFailed, amBefore >>

\* replaceTeacher lines 346-352: the SELECT resolves; the UPDATE is issued.
ReplaceSelectOk ==
  /\ amOp = "replaceTeacher"
  /\ amPc = "select"
  /\ free # {}
  /\ amRows' = TeacherRows(lessons, amReq.body.group_id,
                           Trim(amReq.body.old_teacher))
  /\ amPc' = "update"
  /\ UNCHANGED << notAdmin, lessons, nextId, audit, groups, nextGroupId,
                  amOp, amReq, amCount, amResp, amCalls, amFailed, amBefore >>

\* replaceTeacher lines 353-373: the UPDATE resolves with its rowCount.
ReplaceUpdateOk ==
  LET b == amReq.body
      hit == TeacherRows(lessons, b.group_id, Trim(b.old_teacher))
  IN
  /\ amOp = "replaceTeacher"
  /\ amPc = "update"
  /\ free # {}
  /\ lessons' = (lessons \ hit)
                  \cup { WithTeacher(row, Trim(b.new_teacher)) : row \in hit }
  /\ amCount' = Cardinality(hit)
  /\ AfterWrite(ShouldLog(Cardinality(hit)))
  /\ UNCHANGED << notAdmin, nextId, audit, groups, nextGroupId, amOp, amReq,
                  amRows, amCalls, amFailed, amBefore >>

\* createGroup lines 51-57: the INSERT resolves with the new row.
GroupInsertOk ==
  LET name == Trim(amReq.body.name) IN
  /\ amOp = "createGroup"
  /\ amPc = "insert"
  /\ free # {}
  /\ \A g \in groups : g.name # name
  /\ groups' = groups \cup { [id |-> nextGroupId, name |-> name] }
  /\ nextGroupId' = nextGroupId + 1
  /\ amCount' = 1
  /\ AfterWrite(TRUE)
  /\ UNCHANGED << notAdmin, lessons, nextId, audit, amOp, amReq, amRows,
                  amCalls, amFailed, amBefore >>

\* createGroup lines 69-71: the INSERT is rejected by the UNIQUE constraint
\* on groups.name (code 23505): 400.  The sequence has advanced.
GroupInsertDuplicate ==
  /\ amOp = "createGroup"
  /\ amPc = "insert"
  /\ free # {}
  /\ \E g \in groups : g.name = Trim(amReq.body.name)
  /\ nextGroupId' = nextGroupId + 1
  /\ amFailed' = "unique"
  /\ amResp' = HttpBadRequest
  /\ amPc' = "done"
  /\ UNCHANGED << notAdmin, lessons, nextId, audit, groups, amOp, amReq,
                  amRows, amCount, amCalls, amBefore >>

\* deleteGroup lines 89-95: the SELECT resolves; 404 when the group is
\* unknown, else the DELETE is issued.
GroupSelectOk ==
  LET found == { g \in groups : g.id = amReq.params.id } IN
  /\ amOp = "deleteGroup"
  /\ amPc = "select"
  /\ free # {}
  /\ amRows' = found
  /\ IF found = {}
       THEN amResp' = HttpNotFound /\ amPc' = "done"
       ELSE amResp' = amResp /\ amPc' = "delete"
  /\ UNCHANGED << notAdmin, lessons, nextId, audit, groups, nextGroupId,
                  amOp, amReq, amCount, amCalls, amFailed, amBefore >>

\* deleteGroup line 95: no template references the group; the DELETE
\* removes it.
GroupDeleteOk ==
  LET id == amReq.params.id IN
  /\ amOp = "deleteGroup"
  /\ amPc = "delete"
  /\ free # {}
  /\ ~ Referenced(lessons, id)
  /\ groups' = { g \in groups : g.id # id }
  /\ amCount' = Cardinality({ g \in groups : g.id = id })
  /\ AfterWrite(TRUE)
  /\ UNCHANGED << notAdmin, lessons, nextId, audit, nextGroupId, amOp, amReq,
                  amRows, amCalls, amFailed, amBefore >>

\* deleteGroup line 95: a template references the group; the DELETE is
\* rejected by the foreign key of lessons.group_id (code 23503) and the
\* catch block answers 500 (lines 109-111).
GroupDeleteRestricted ==
  /\ amOp = "deleteGroup"
  /\ amPc = "delete"
  /\ free # {}
  /\ Referenced(lessons, amReq.params.id)
  /\ amFailed' = "foreign key"
  /\ amResp' = HttpServerError
  /\ amPc' = "done"
  /\ UNCHANGED << notAdmin, lessons, nextId, audit, groups, nextGroupId,
                  amOp, amReq, amRows, amCount, amCalls, amBefore >>

\* logChange(req.user.id, '<action>', '<target>', ...) resolves after its
\* INSERT; res.json.
AmAuditOk ==
  /\ amPc = "audit"
  /\ free # {}
  /\ audit' = InsertChange(audit,
                LogChangePositional(amReq.user.id, ActionType(amOp),
                                    TargetType(amOp)))
  /\ amResp' = HttpOk
  /\ amPc' = "done"
  /\ UNCHANGED << notAdmin, lessons, nextId, groups, nextGroupId, amOp,
                  amReq, amRows, amCount, amCalls, amFailed, amBefore >>

\* audit.service.js 76-84: the INSERT rejects, logChange swallows it;
\* res.json.
AmAuditFail ==
  /\ amPc = "audit"
  /\ amFailed' = "audit"
  /\ amResp' = IF LogChangeThrows(TRUE) THEN HttpServerError ELSE HttpOk
  /\ amPc' = "done"
  /\ UNCHANGED << notAdmin, lessons, nextId, audit, groups, nextGroupId,
                  amOp, amReq, amRows, amCount, amCalls, amBefore >>

\* The handler's promise has settled; the next request may arrive.
AmReturn ==
  /\ amPc = "done"
  /\ amPc' = "idle"
  /\ amOp' = "none"
  /\ amReq' = NoAdmin
  /\ amRows' = {}
  /\ amCount' = 0
  /\ amResp' = NoResponse
  /\ amFailed' = "none"
  /\ amBefore' = NoTables
  /\ UNCHANGED << notAdmin, lessons, nextId, audit, groups, nextGroupId,
                  amCalls >>

NextAdmin ==
  \/ ClearWeek
  \/ ClearSelectOk
  \/ ClearSelectFail
  \/ ClearDeleteOk
  \/ ClearDeleteFail
  \/ ReplaceTeacher
  \/ ReplaceSelectOk
  \/ ReplaceSelectFail
  \/ ReplaceUpdateOk
  \/ ReplaceUpdateFail
  \/ CreateGroup
  \/ GroupInsertOk
  \/ GroupInsertDuplicate
  \/ GroupInsertFail
  \/ DeleteGroup
  \/ GroupSelectOk
  \/ GroupSelectFail
  \/ GroupDeleteOk
  \/ GroupDeleteRestricted
  \/ GroupDeleteFail
  \/ AmAuditOk
  \/ AmAuditFail
  \/ AmReturn

SpecAdmin == InitAdmin /\ [][NextAdmin]_vars

\* ------------------------------------------------- the bulk week operations
\* copyWeek, clearWeek, replaceTeacher and the group handlers over the same
\* tables.  Requests are handled one at a time, and a run serves the
\* requests of copyWeek or those of the other handlers: the counter of the
\* handlers that stay idle starts at its bound.
InitBulk ==
  /\ HandlersQuiet
  /\ AdminSeed
  /\ WeekIdle
  /\ GenIdle
  /\ CreateIdle
  /\ RouteIdle
  /\ CopyQuiet
  /\ AdminQuiet
  /\ \/ cwCalls = 0 /\ amCalls = MaxAdminCalls
     \/ cwCalls = MaxCopies /\ amCalls = 0

NextBulk ==
  \/ NextCopy
  \/ NextAdmin

SpecBulk == InitBulk /\ [][NextBulk]_vars

\* Vocabulary of the claims about the bulk operations.
AmAdmitted == amOp # "none" /\ AdminPrecheck(amOp, amReq) = NoResponse
AmSucceeded == amPc = "done" /\ amResp = HttpOk
BulkOps == {"clearWeek", "replaceTeacher"}

OperationName(op) ==
  IF op = "clearWeek" THEN "clear_week" ELSE "replace_teacher"

\* the record names the admin and the operation
Names(entry, user, action) ==
  /\ entry.admin_id # Null
  /\ entry.admin_id = user.id
  /\ entry.action_type # Null
  /\ entry.action_type = action

IsPrefix(old, log) ==
  Len(old) <= Len(log) /\ SubSeq(log, 1, Len(old)) = old

\* log is old with one record appended, which names user and action
OneRecordMore(log, old, user, action) ==
  /\ Len(log) = Len(old) + 1
  /\ IsPrefix(old, log)
  /\ Names(log[Len(log)], user, action)

\* C21: each copyWeek that succeeds, each clearWeek that removes at least
\* one template and each replaceTeacher that updates at least one template
\* has appended one audit record whose adminId is the acting admin and
\* whose actionType is copy_week, clear_week or replace_teacher.
C21_BulkAuditNamesAdminAndOperation ==
  /\ CwSucceeded =>
       OneRecordMore(audit, cwBefore.audit, cwReq.user, "copy_week")
  /\ (AmSucceeded /\ amOp \in BulkOps /\ amCount > 0) =>
       OneRecordMore(audit, amBefore.audit, amReq.user, OperationName(amOp))

\* the templates tagged (group_id, week)
Tagged(table, group_id, week) ==
  { row \in table : row.group_id = group_id /\ row.week = week }

ClearSucceeded == AmSucceeded /\ amOp = "clearWeek"

\* the tagged templates are gone, every other template is as it was, and
\* the count reported is the number of templates removed
ClearedExactly ==
  LET b == amReq.body
      tagged == Tagged(amBefore.lessons, b.group_id, b.week)
  IN
  /\ lessons = amBefore.lessons \ tagged
  /\ amCount = Cardinality(tagged)

\* C22 as stated: clearWeek(groupId, parity) deletes exactly the templates
\* tagged (groupId, parity), leaves every other template unchanged, reports
\* the number removed, and has written an audit record if and only if that
\* number is greater than 0.
C22_ClearWeekAuditIff ==
  ClearSucceeded =>
    /\ ClearedExactly
    /\ IsPrefix(amBefore.audit, audit)
    /\ (Len(audit) = Len(amBefore.audit) + 1) <=> (amCount > 0)

\* C22 amended: clearWeek(groupId, parity) deletes exactly the templates
\* tagged (groupId, parity), leaves every other template unchanged and
\* reports the number removed; it writes no audit record when that number
\* is 0, and exactly one when it is greater than 0 unless the audit write
\* fails, which is swallowed and leaves the log as it was.
C22_ClearWeekAuditBestEffort ==
  ClearSucceeded =>
    /\ ClearedExactly
    /\ IsPrefix(amBefore.audit, audit)
    /\ (amCount = 0 \/ amFailed = "audit") => audit = amBefore.audit
    /\ (amCount > 0 /\ amFailed # "audit") =>
         Len(audit) = Len(amBefore.audit) + 1

\* A clearWeek removed two templates of a group that keeps others, and its
\* audit record was written.
C22_Witness ==
  /\ ClearSucceeded
  /\ amCount = 2
  /\ Len(audit) = Len(amBefore.audit) + 1
  /\ \E row \in lessons : row.group_id = amReq.body.group_id

\* Vocabulary: a text without the blanks at its ends.
Blank(s) == \A i \in 1..Len(s) : s[i] = " "

Stripped(s) ==
  IF Blank(s) THEN << >>
  ELSE LET inked == { i \in 1..Len(s) : s[i] # " " }
           first == CHOOSE i \in inked : \A j \in inked : i <= j
           last == CHOOSE i \in inked : \A j \in inked : j <= i
       IN SubSeq(s, first, last)

ReplaceSucceeded == AmSucceeded /\ amOp = "replaceTeacher"

\* the templates of the group whose teacher is exactly the old name
Taught(table, group_id, teacher) ==
  { row \in table : row.group_id = group_id /\ row.teacher = teacher }

\* exactly those templates carry the new name, nothing else differs, and
\* the count reported is the number of templates updated
ReplacedExactly ==
  LET b == amReq.body
      hit == Taught(amBefore.lessons, b.group_id, Stripped(b.old_teacher))
  IN
  /\ lessons = (amBefore.lessons \ hit)
                 \cup { [row EXCEPT !.teacher = Stripped(b.new_teacher)] :
                          row \in hit }
  /\ amCount = Cardinality(hit)

\* C23 as stated: replaceTeacher(groupId, old, new) sets the teacher name
\* to trim(new) on exactly the templates of groupId whose teacher name
\* equals trim(old) as an exact string, leaves every other template and
\* field unchanged, reports the number updated, and has written an audit
\* record if and only if that number is greater than 0.
C23_ReplaceTeacherAuditIff ==
  ReplaceSucceeded =>
    /\ ReplacedExactly
    /\ IsPrefix(amBefore.audit, audit)
    /\ (Len(audit) = Len(amBefore.audit) + 1) <=> (amCount > 0)

\* C23 amended: the same update and count; no audit record is written when
\* the count is 0, and exactly one when it is greater than 0 unless the
\* audit write fails, which is swallowed and leaves the log as it was.
C23_ReplaceTeacherAuditBestEffort ==
  ReplaceSucceeded =>
    /\ ReplacedExactly
    /\ IsPrefix(amBefore.audit, audit)
    /\ (amCount = 0 \/ amFailed = "audit") => audit = amBefore.audit
    /\ (amCount > 0 /\ amFailed # "audit") =>
         Len(audit) = Len(amBefore.audit) + 1

\* A replaceTeacher whose names came with blanks updated two templates and
\* left alone a template of the group whose stored name has a blank.
C23_Witness ==
  /\ ReplaceSucceeded
  /\ amReq.body.old_teacher # Stripped(amReq.body.old_teacher)
  /\ amReq.body.new_teacher # Stripped(amReq.body.new_teacher)
  /\ amCount = 2
  /\ Len(audit) = Len(amBefore.audit) + 1
  /\ \E row \in lessons :
       /\ row.group_id = amReq.body.group_id
       /\ row.teacher # Stripped(row.teacher)

\* Vocabulary: the answer of the guards to an actor who is not an admin:
\* 401 Unauthorized without an authenticated user, 403 Forbidden with the
\* wrong role.
Rejection(user) ==
  IF user.role = "none" THEN HttpUnauthorized ELSE HttpForbidden

\* C24: copyWeek, clearWeek and replaceTeacher requested by an actor whose
\* role is not admin (teacher, student, or no authenticated user) are
\* rejected with an authorization error before the handler runs any
\* statement: no template and no audit record changes.
C24_BulkOpsAdminOnly ==
  /\ (cwPc # "idle" /\ cwReq.user.role # "admin") =>
       /\ cwPc = "done"
       /\ cwResp = Rejection(cwReq.user)
       /\ cwSource = {} /\ cwFailed = "none"
       /\ lessons = cwBefore.lessons
       /\ audit = cwBefore.audit
  /\ (amOp \in BulkOps /\ amReq.user.role # "admin") =>
       /\ amPc = "done"
       /\ amResp = Rejection(amReq.user)
       /\ amRows = {} /\ amCount = 0 /\ amFailed = "none"
       /\ lessons = amBefore.lessons
       /\ audit = amBefore.audit

\* a teacher's replaceTeacher, the second request of the run, was answered
\* with 403 on a table an earlier request had changed
C24_Witness ==
  /\ amPc = "done"
  /\ amOp = "replaceTeacher"
  /\ amReq.user.role = "teacher"
  /\ amResp = HttpForbidden
  /\ lessons # TeacherSeed

\* ----------------------------------------------------- the whole backend
\* updateScheduleByDay, createLesson, copyWeek, clearWeek, replaceTeacher,
\* createGroup and deleteGroup.  Requests are handled one at a time, and a
\* run serves the requests of one controller: the counters of the
\* handlers that stay idle start at their bound.
BackendQuiet ==
  /\ DayStart
  /\ WeekIdle
  /\ CreateQuiet
  /\ CopyQuiet
  /\ AdminQuiet
  /\ RouteIdle

NoGroups == groups = {} /\ nextGroupId = 1

InitBackend ==
  /\ BackendQuiet
  /\ \/ /\ today \in 2..3
        /\ tzWest \in BOOLEAN
        /\ DaySeed
        /\ NoGroups
        /\ GenIdle
        /\ calls = 0
        /\ crCalls = MaxCreates /\ cwCalls = MaxCopies
        /\ amCalls = MaxAdminCalls
     \/ /\ today = 2
        /\ tzWest = FALSE
        /\ DaySeed
        /\ NoGroups
        /\ gnTz \in {0 - 300, 180}
        /\ gnDay = 0
        /\ gnOut = << >>
        /\ gnRun = NoRun
        /\ crCalls = 0
        /\ calls = MaxCalls /\ cwCalls = MaxCopies
        /\ amCalls = MaxAdminCalls
     \/ /\ today = 2
        /\ tzWest = FALSE
        /\ AdminSeed
        /\ GenIdle
        /\ \/ cwCalls = 0 /\ amCalls = MaxAdminCalls
           \/ cwCalls = MaxCopies /\ amCalls = 0
        /\ calls = MaxCalls /\ crCalls = MaxCreates

NextBackend ==
  \/ NextSeq
  \/ NextCreate
  \/ NextCopy
  \/ NextAdmin

SpecBackend == InitBackend /\ [][NextBackend]_vars

\* C25: the audit log is append-only: whatever replaceDay, createLesson,
\* copyWeek, clearWeek, replaceTeacher, createGroup and deleteGroup do,
\* every audit record that existed still exists, at its place and with
\* its fields unchanged; a step only ever adds records.
C25_AuditAppendOnly == [][IsPrefix(audit, audit')]_vars

\* the log holds two records that differ
C25_Witness ==
  /\ Len(audit) = 2
  /\ audit[1] # audit[2]

\* Vocabulary of the claim about deleteGroup.
DeleteSettled ==
  /\ amOp = "deleteGroup"
  /\ amPc = "done"
  /\ amReq.user.role = "admin"
  /\ amFailed \notin {"select", "delete"}

Known(table, id) == \E g \in table : g.id = id

\* C26: deleteGroup on an existing group that still has lessons succeeds
\* and removes the group together with every lesson that references it,
\* so that no lesson ever references a group that does not exist;
\* deleteGroup on an unknown id returns NotFound and changes nothing.
C26_DeleteGroupCascades ==
  /\ \A row \in lessons : Known(groups, row.group_id)
  /\ (DeleteSettled /\ Known(amBefore.groups, amReq.params.id)) =>
       /\ ErrorKind(amResp) = "success"
       /\ ~ Known(groups, amReq.params.id)
       /\ \A row \in lessons : row.group_id # amReq.params.id
  /\ (DeleteSettled /\ ~ Known(amBefore.groups, amReq.params.id)) =>
       /\ ErrorKind(amResp) = "NotFoundError"
       /\ groups = amBefore.groups
       /\ lessons = amBefore.lessons
       /\ audit = amBefore.audit

\* C27: the two parity notions agree: for every date d that
\* generateDates(weekday, EVEN) returns, getWeekInfo called with now = d
\* reports isEven = true (the academic week containing d is even), and for
\* every date that generateDates(weekday, ODD) returns it reports
\* isEven = false.
C27_ParityNotionsAgree ==
  \A w \in 1..2 : Ran(w) =>
    \A i \in DOMAIN gnOut[w] :
      GetWeekInfo(gnOut[w][i], 0).isEven = (w = 1)

\* Vocabulary: the call of slot r has committed its transaction.
Committed(r) ==
  /\ pc[r] \in {"audit", "done"}
  /\ failedAt[r] = "none"
  /\ client[r] \in stmts[r]
  /\ resp[r] \in {NoResponse, HttpOk}

\* C28: when two replaceDay calls for the same (date, groupId) with lists
\* L1 and L2 are in flight together and both have committed, the rows of
\* that pair are the entries of L1 or the entries of L2, never a mix of
\* rows of both.
C28_ConcurrentReplaceIsOneOrTheOther ==
  (/\ Committed("r1") /\ Committed("r2")
   /\ Body("r1").date = Body("r2").date
   /\ Body("r1").groupId = Body("r2").groupId) =>
    \E r \in Slots :
      /\ Content(DayRows(lessons, r)) = ListContent(Items(r))
      /\ Cardinality(DayRows(lessons, r)) = Len(Items(r))

\* A step of a request under way: no new request is taken in.
Settle ==
  /\ NextBackend
  /\ calls' = calls
  /\ crCalls' = crCalls
  /\ cwCalls' = cwCalls
  /\ amCalls' = amCalls

\* Every awaited promise settles, one way or the other, and the handler
\* runs on: the steps of a request under way are taken as long as one is
\* enabled.  Nothing obliges a client to send a further request.
SpecBackendFair == SpecBackend /\ WF_vars(Settle)

\* Vocabulary: the n-th request of a handler has passed the initial checks
\* and waits for its connection; the n-th request has been answered.
DayAdmitted(n) == calls = n /\ pc["r1"] = "connect"
DayAnswered(n) == calls = n /\ resp["r1"] # NoResponse
CreateAdmitted(n) == crCalls = n /\ crPc = "connect"
CreateAnswered(n) == crCalls = n /\ crResp # NoResponse

\* C29: every replaceDay and createLesson request that passes the initial
\* checks eventually receives a response, also when acquiring the
\* connection from the pool fails or when the ROLLBACK of the error path
\* fails.
C29_AdmittedRequestIsAnswered ==
  /\ \A n \in 1..MaxCalls : DayAdmitted(n) ~> DayAnswered(n)
  /\ \A n \in 1..MaxCreates : CreateAdmitted(n) ~> CreateAnswered(n)

\* ===================================================== the routers of index.js
\* A request to /api/admin/... travels down the app.use(...) entries of
\* index.js in the order of the file.  An entry whose mount path is a
\* prefix of the request path hands the request to its router; the first
\* route of the router that matches method and path runs its middleware
\* chain; a router without a matching route passes the request on.
MaxRequests == 1

Layer(line, mount, router) ==
  [line |-> line, mount |-> mount, router |-> router]

\* index.js 51-114; "pass" entries (cors, body parsers, rate limiters below
\* their limit, static files) call next()
Stack ==
  << Layer(51, "", "pass"), Layer(58, "", "pass"), Layer(59, "", "pass"),
     Layer(60, "/api/schedule", "scheduleDay"),
     Layer(62, "/api/admin", "adminTeacher"),
     Layer(63, "/api/teacher", "teacherSchedule"),
     Layer(64, "/api/admin", "adminLessons"),
     Layer(65, "/api/groups", "groups"),
     Layer(66, "/api/admin", "adminAudit"),
     Layer(82, "", "pass"),
     Layer(94, "/api/auth/login", "pass"),
     Layer(105, "/api/admin", "pass"),
     Layer(109, "", "pass"),
     Layer(112, "/api/auth", "auth"),
     Layer(113, "/api/schedule", "schedule"),
     Layer(114, "/api/admin", "admin") >>

Route(method, path, adminOnly, handler) ==
  [method |-> method, path |-> path, adminOnly |-> adminOnly,
   handler |-> handler]

\* The routes of each router, in the order of registration.  Every route
\* starts with authMiddleware; adminOnly tells whether the adminOnly
\* middleware follows.
Routes(router) ==
  IF router = "adminTeacher" THEN
    << Route("POST", << "teachers" >>, FALSE, "createTeacher"),
       Route("GET", << "teachers" >>, FALSE, "getTeachers") >>
  ELSE IF router = "adminLessons" THEN
    << Route("GET", << "lessons" >>, FALSE, "getAdminLessons") >>
  ELSE IF router = "adminAudit" THEN
    << Route("GET", << "audit" >>, FALSE, "audit") >>
  ELSE IF router = "admin" THEN
    << Route("POST", << "lessons", "copy-week" >>, TRUE, "copyWeek"),
       Route("DELETE", << "lessons", "clear-week" >>, TRUE, "clearWeek"),
       Route("PATCH", << "lessons", "replace-teacher" >>, TRUE,
             "replaceTeacher"),
       Route("GET", << "groups" >>, TRUE, "getGroups"),
       Route("POST", << "groups" >>, TRUE, "createGroup"),
       Route("DELETE", << "groups", ":id" >>, TRUE, "deleteGroup"),
       Route("GET", << "lessons" >>, TRUE, "getLessons"),
       Route("POST", << "lessons" >>, TRUE, "createLesson"),
       Route("DELETE", << "lessons", ":id" >>, TRUE, "deleteLesson"),
       Route("GET", << "changes" >>, TRUE, "getChangeHistory") >>
  ELSE << >>

\* a route path against the rest of the request path; :id takes any segment
PathMatch(pattern, path) ==
  /\ Len(pattern) = Len(path)
  /\ \A i \in 1..Len(pattern) : pattern[i] = ":id" \/ pattern[i] = path[i]

RouteMatch(route, q) ==
  route.method = q.method /\ PathMatch(route.path, q.path)

Matching(router, q) ==
  { i \in DOMAIN Routes(router) : RouteMatch(Routes(router)[i], q) }

\* the first matching route of the router
FirstMatch(router, q) ==
  Routes(router)[CHOOSE i \in Matching(router, q) :
                   \A j \in Matching(router, q) : i <= j]

\* the entry takes the request: its mount path fits and a route matches
Takes(layer, q) ==
  /\ layer.mount = q.mount
  /\ Matching(layer.router, q) # {}

\* handlers that test req.user.role themselves: createTeacher and
\* getTeachers (controllers/admin.controller.js 714-716, 743-745) and the
\* handler of GET /audit (src/unnamed/part_003 15-18)
ChecksRole(handler) == handler \in {"createTeacher", "getTeachers", "audit"}

\* authMiddleware, adminOnly where the route has it, and the role test of
\* the handler where it has one: the status that turns the request away,
\* or NoResponse when the handler's work begins
RouteGuards(route, user) ==
  IF user.role = "none" THEN HttpUnauthorized
  ELSE IF route.adminOnly /\ ~ AdminOnly(user) THEN HttpForbidden
  ELSE IF ChecksRole(route.handler) /\ user.role # "admin" THEN HttpForbidden
  ELSE NoResponse

\* what the body of a 200 answer of the handler carries
Payload(handler) ==
  IF handler \in {"getAdminLessons", "getLessons"} THEN "lessons"
  ELSE IF handler \in {"getTeachers", "createTeacher"} THEN "teachers"
  ELSE IF handler \in {"audit", "getChangeHistory"} THEN "changes"
  ELSE IF handler \in {"getGroups", "createGroup"} THEN "groups"
  ELSE "message"

\* the statuses a handler answers with once its work has begun
HandlerStatuses == {HttpOk, HttpBadRequest, HttpNotFound, HttpServerError}

RouteMethods == {"GET", "POST", "DELETE", "PATCH"}

RoutePaths ==
  { << "teachers" >>, << "lessons" >>, << "audit" >>, << "groups" >>,
    << "changes" >>, << "groups", "1" >>, << "lessons", "1" >>,
    << "lessons", "copy-week" >>, << "lessons", "clear-week" >>,
    << "lessons", "replace-teacher" >>, << "nothing" >> }

RouteUsers ==
  { [id |-> 1, role |-> "admin"], [id |-> 2, role |-> "teacher"],
    [id |-> 3, role |-> "student"], [id |-> 0, role |-> "none"] }

RouteRequests ==
  { [mount |-> "/api/admin", method |-> m, path |-> p, user |-> u] :
      m \in RouteMethods, p \in RoutePaths, u \in RouteUsers }

InitRoute ==
  /\ DayQuiet
  /\ WeekIdle
  /\ GenIdle
  /\ CreateIdle
  /\ CopyIdle
  /\ AdminIdle
  /\ RouteIdle

notRoute ==
  << dayVars, weekVars, genVars, createVars, copyVars, adminVars >>

\* The request enters the stack of the app.
Receive ==
  /\ rtPc = "idle"
  /\ rtCalls < MaxRequests
  /\ \E q \in RouteRequests : rtReq' = q
  /\ rtCalls' = rtCalls + 1
  /\ rtPc' = "stack"
  /\ rtAt' = 1
  /\ UNCHANGED << notRoute, rtResp, rtData >>

\* The entry reached does not take the request: next().
PassOn ==
  /\ rtPc = "stack"
  /\ rtAt <= Len(Stack)
  /\ ~ Takes(Stack[rtAt], rtReq)
  /\ rtAt' = rtAt + 1
  /\ UNCHANGED << notRoute, rtPc, rtReq, rtResp, rtData, rtCalls >>

\* The entry takes the request and authMiddleware, adminOnly or the
\* handler's own role test answers 401 or 403.
TurnAway ==
  /\ rtPc = "stack"
  /\ rtAt <= Len(Stack)
  /\ Takes(Stack[rtAt], rtReq)
  /\ LET route == FirstMatch(Stack[rtAt].router, rtReq) IN
       /\ RouteGuards(route, rtReq.user) # NoResponse
       /\ rtResp' = RouteGuards(route, rtReq.user)
  /\ rtPc' = "done"
  /\ UNCHANGED << notRoute, rtReq, rtAt, rtData, rtCalls >>

\* The entry takes the request and the handler does its work and answers;
\* a 200 carries the handler's data.
Handle ==
  /\ rtPc = "stack"
  /\ rtAt <= Len(Stack)
  /\ Takes(Stack[rtAt], rtReq)
  /\ LET route == FirstMatch(Stack[rtAt].router, rtReq) IN
       /\ RouteGuards(route, rtReq.user) = NoResponse
       /\ \E status \in HandlerStatuses :
            /\ rtResp' = status
            /\ rtData' = IF status = HttpOk THEN Payload(route.handler)
                         ELSE "none"
  /\ rtPc' = "done"
  /\ UNCHANGED << notRoute, rtReq, rtAt, rtCalls >>

\* No entry took the request: Express answers 404.
Unmatched ==
  /\ rtPc = "stack"
  /\ rtAt > Len(Stack)
  /\ rtResp' = HttpNotFound
  /\ rtPc' = "done"
  /\ UNCHANGED << notRoute, rtReq, rtAt, rtData, rtCalls >>

\* The answer has been sent; the app waits for the next request.
Answered ==
  /\ rtPc = "done"
  /\ rtPc' = "idle"
  /\ rtReq' = NoRoute
  /\ rtAt' = 0
  /\ rtResp' = NoResponse
  /\ rtData' = "none"
  /\ UNCHANGED << notRoute, rtCalls >>

NextRoute ==
  \/ Receive
  \/ PassOn
  \/ TurnAway
  \/ Handle
  \/ Unmatched
  \/ Answered

SpecRoute == InitRoute /\ [][NextRoute]_vars

\* Vocabulary: the request names an endpoint some router registers.
IsEndpoint(q) ==
  \E i \in DOMAIN Stack : Takes(Stack[i], q)

\* C30: every request to an endpoint under /api/admin made by an
\* authenticated user whose role is not admin is answered with 403 and
\* returns no data; in particular GET /api/admin/lessons never returns the
\* lesson list to a student or teacher.
C30_AdminEndpointsForbidOthers ==
  (/\ rtPc = "done"
   /\ IsEndpoint(rtReq)
   /\ rtReq.user.role \in {"teacher", "student"}) =>
    /\ rtResp = HttpForbidden
    /\ rtData = "none"

====
